---- MODULE Spec2Model ----
(***************************************************************************)
(* Model of the Markdown Analyzer diff view: OutputPanel hands the two     *)
(* texts to DiffViewer, DiffViewer calls diffLines of the diff library     *)
(* with ignoreWhitespace and getDiffRows turns the parts into rows.        *)
(* A text is a sequence of characters; the characters that matter to the   *)
(* code are the line feed, the carriage return and blank space.            *)
(* The later sections model ControlPanel, linkCredentials,                 *)
(* captureMarkdownPreview, UserPanel, AuthProvider, UserAuth and useTheme, *)
(* each with a specification of its own that leaves the other components   *)
(* at rest.                                                                *)
(***************************************************************************)
EXTENDS Integers, Sequences, FiniteSets, TLC

VARIABLES markdown, markdownInput, oldContent, newContent, lineDiff,
          partPos, lines, oldIdx, newIdx, rows, pc,
          rendered, prevRendered, renders

\* State of ControlPanel and of the App values it writes.
VARIABLES summary, instructions, isProcessing, fileInput, toast, llm, upload,
          controlEvent

diffVars == <<oldContent, newContent, lineDiff, partPos, lines, oldIdx, newIdx,
              rows, pc, rendered, prevRendered, renders>>

controlVars == <<summary, instructions, isProcessing, fileInput, toast, llm,
                 upload, controlEvent>>

\* A call of linkCredentials, the calls of captureMarkdownPreview, UserPanel
\* with the auth context it reads, AuthProvider, and UserAuth.
VARIABLES link, capture, panel, provider, userAuth

\* useTheme as used by ColorSchemes, with document.body and localStorage.
VARIABLES theming

vars == <<markdown, markdownInput, diffVars, controlVars, link, capture,
          panel, provider, userAuth, theming>>

\* What the steps of the diff view leave alone.
nonDiffVars == <<controlVars, link, capture, panel, provider, userAuth, theming>>

\* What the steps of ControlPanel leave alone.
nonControlVars == <<diffVars, link, capture, panel, provider, userAuth, theming>>

\* What each of the other components leaves alone.
nonLinkVars ==
  <<markdown, markdownInput, diffVars, controlVars, capture, panel, provider,
    userAuth, theming>>

nonCaptureVars ==
  <<markdown, markdownInput, diffVars, controlVars, link, panel, provider,
    userAuth, theming>>

nonPanelVars ==
  <<markdown, markdownInput, diffVars, controlVars, link, capture, provider,
    userAuth, theming>>

nonProviderVars ==
  <<markdown, markdownInput, diffVars, controlVars, link, capture, panel,
    userAuth, theming>>

nonUserAuthVars ==
  <<markdown, markdownInput, diffVars, controlVars, link, capture, panel,
    provider, theming>>

nonThemeVars ==
  <<markdown, markdownInput, diffVars, controlVars, link, capture, panel,
    provider, userAuth>>

\* Bounds of the model.
MaxLen == 3
MaxRenders == 2
MaxCalls == 2
MaxImages == 2

\* Characters.
LF == "LF"
CR == "CR"
SP == "SP"
Letters == {"a", "b", "c"}
Alphabet == Letters \cup {SP, CR, LF}
Whitespace == {SP, CR, LF}

RECURSIVE TextsOfLen(_)
TextsOfLen(n) ==
  IF n = 0 THEN {<<>>}
  ELSE {Append(t, ch) : t \in TextsOfLen(n - 1), ch \in Alphabet}

Texts == UNION {TextsOfLen(n) : n \in 0..MaxLen}

\* JavaScript values a prop can hold.
JSString(t) == [type |-> "string", val |-> t]
JSNull == [type |-> "null", val |-> <<>>]
JSUndefined == [type |-> "undefined", val |-> <<>>]
IsString(v) == v.type = "string"

\* x || '' : every falsy value (null, undefined, '') becomes ''.
OrEmpty(v) == IF IsString(v) /\ v.val # <<>> THEN v ELSE JSString(<<>>)

Max(a, b) == IF a >= b THEN a ELSE b
Min(a, b) == IF a <= b THEN a ELSE b

(***************************************************************************)
(* String helpers of JavaScript.                                           *)
(***************************************************************************)
\* text.split('\n'): the pieces between line feeds, always at least one.
RECURSIVE SplitFrom(_, _, _)
SplitFrom(text, i, cur) ==
  IF i > Len(text) THEN <<cur>>
  ELSE IF text[i] = LF THEN <<cur>> \o SplitFrom(text, i + 1, <<>>)
  ELSE SplitFrom(text, i + 1, Append(cur, text[i]))

SplitLF(text) == SplitFrom(text, 1, <<>>)

\* text.replace(/\r\n/g, '\n').replace(/\r/g, '\n')
RECURSIVE ReplaceCRLF(_, _)
ReplaceCRLF(text, i) ==
  IF i > Len(text) THEN <<>>
  ELSE IF text[i] = CR /\ i < Len(text) /\ text[i + 1] = LF
       THEN <<LF>> \o ReplaceCRLF(text, i + 2)
       ELSE <<text[i]>> \o ReplaceCRLF(text, i + 1)

ReplaceCR(text) == [i \in 1..Len(text) |-> IF text[i] = CR THEN LF ELSE text[i]]

normalizeText(text) == ReplaceCR(ReplaceCRLF(text, 1))

\* String.prototype.trim
RECURSIVE TrimStart(_)
TrimStart(s) ==
  IF s # <<>> /\ Head(s) \in Whitespace THEN TrimStart(Tail(s)) ELSE s

RECURSIVE TrimEnd(_)
TrimEnd(s) ==
  IF s # <<>> /\ s[Len(s)] \in Whitespace
  THEN TrimEnd(SubSeq(s, 1, Len(s) - 1)) ELSE s

Trim(s) == TrimEnd(TrimStart(s))

RECURSIVE Join(_)
Join(tokens) == IF tokens = <<>> THEN <<>> ELSE Head(tokens) \o Join(Tail(tokens))

(***************************************************************************)
(* diffLines(oldStr, newStr, {ignoreWhitespace: true}) of the diff         *)
(* library, as DiffViewer calls it: the line tokenizer, the comparison of  *)
(* two tokens, the edit-graph search and the building of the parts.        *)
(***************************************************************************)
\* value.split(/(\n|\r\n)/): lines and separators in turn; a carriage return
\* right before a line feed belongs to the separator.
RECURSIVE SplitKeep(_, _, _)
SplitKeep(text, i, cur) ==
  IF i > Len(text) THEN <<cur>>
  ELSE IF text[i] = LF THEN <<cur, <<LF>>>> \o SplitKeep(text, i + 1, <<>>)
  ELSE IF text[i] = CR /\ i < Len(text) /\ text[i + 1] = LF
       THEN <<cur, <<CR, LF>>>> \o SplitKeep(text, i + 2, <<>>)
       ELSE SplitKeep(text, i + 1, Append(cur, text[i]))

\* Merge the content and line separators into single tokens.
RECURSIVE MergeTokens(_, _, _)
MergeTokens(pieces, i, ret) ==
  IF i > Len(pieces) THEN ret
  ELSE IF i % 2 = 0
       THEN MergeTokens(pieces, i + 1,
              [ret EXCEPT ![Len(ret)] = ret[Len(ret)] \o pieces[i]])
       ELSE MergeTokens(pieces, i + 1, Append(ret, pieces[i]))

tokenize(value) ==
  LET all == SplitKeep(value, 1, <<>>)
      linesAndNewlines ==
        IF all[Len(all)] = <<>> THEN SubSeq(all, 1, Len(all) - 1) ELSE all
  IN  MergeTokens(linesAndNewlines, 1, <<>>)

removeEmpty(tokens) == SelectSeq(tokens, LAMBDA t : t # <<>>)

\* lineDiff.equals with ignoreWhitespace: both sides are trimmed.
TokenEquals(left, right) == Trim(left) = Trim(right)

Component(count, added, removed) ==
  [count |-> count, added |-> added, removed |-> removed]

addToPath(path, added, removed, oldPosInc) ==
  LET n == Len(path.comps)
  IN  IF n > 0 /\ path.comps[n].added = added /\ path.comps[n].removed = removed
      THEN [oldPos |-> path.oldPos + oldPosInc,
            comps |-> [path.comps EXCEPT ![n].count = @ + 1]]
      ELSE [oldPos |-> path.oldPos + oldPosInc,
            comps |-> Append(path.comps, Component(1, added, removed))]

\* Positions are those of the library: the index, from 0, of the last token
\* consumed, so -1 before the first token.
RECURSIVE CommonCount(_, _, _, _)
CommonCount(oldPos, newPos, oldT, newT) ==
  IF newPos + 1 < Len(newT) /\ oldPos + 1 < Len(oldT)
     /\ TokenEquals(oldT[oldPos + 2], newT[newPos + 2])
  THEN 1 + CommonCount(oldPos + 1, newPos + 1, oldT, newT)
  ELSE 0

extractCommon(basePath, newT, oldT, diagonalPath) ==
  LET commonCount ==
        CommonCount(basePath.oldPos, basePath.oldPos - diagonalPath, oldT, newT)
  IN  [oldPos |-> basePath.oldPos + commonCount,
       comps |-> IF commonCount > 0
                 THEN Append(basePath.comps, Component(commonCount, FALSE, FALSE))
                 ELSE basePath.comps]

Without(f, d) == [x \in DOMAIN f \ {d} |-> f[x]]

\* The loop over the diagonals of one edit length.
RECURSIVE DiagonalLoop(_, _, _, _, _, _, _)
DiagonalLoop(d, editLength, bestPath, minD, maxD, oldT, newT) ==
  IF d > Min(maxD, editLength)
  THEN [done |-> FALSE, comps |-> <<>>, bestPath |-> bestPath,
        minD |-> minD, maxD |-> maxD]
  ELSE
    LET hasRemove == (d - 1) \in DOMAIN bestPath
        hasAdd == (d + 1) \in DOMAIN bestPath
        removePath == bestPath[d - 1]
        addPath == bestPath[d + 1]
        cleared == IF hasRemove THEN Without(bestPath, d - 1) ELSE bestPath
        canAdd == hasAdd /\ 0 <= addPath.oldPos - d
                         /\ addPath.oldPos - d < Len(newT)
        canRemove == hasRemove /\ removePath.oldPos + 1 < Len(oldT)
    IN  IF ~canAdd /\ ~canRemove
        THEN DiagonalLoop(d + 2, editLength, Without(cleared, d),
                          minD, maxD, oldT, newT)
        ELSE
          LET chosen ==
                IF ~canRemove \/ (canAdd /\ removePath.oldPos < addPath.oldPos)
                THEN addToPath(addPath, TRUE, FALSE, 0)
                ELSE addToPath(removePath, FALSE, TRUE, 1)
              basePath == extractCommon(chosen, newT, oldT, d)
              newPos == basePath.oldPos - d
          IN  IF basePath.oldPos + 1 >= Len(oldT) /\ newPos + 1 >= Len(newT)
              THEN [done |-> TRUE, comps |-> basePath.comps,
                    bestPath |-> bestPath, minD |-> minD, maxD |-> maxD]
              ELSE DiagonalLoop(d + 2, editLength, (d :> basePath) @@ cleared,
                     IF newPos + 1 >= Len(newT) THEN Max(minD, d + 1) ELSE minD,
                     IF basePath.oldPos + 1 >= Len(oldT)
                     THEN Min(maxD, d - 1) ELSE maxD,
                     oldT, newT)

RECURSIVE execEditLength(_, _, _, _, _, _)
execEditLength(editLength, bestPath, minD, maxD, oldT, newT) ==
  IF editLength > Len(oldT) + Len(newT) THEN <<>>
  ELSE
    LET r == DiagonalLoop(Max(minD, -editLength), editLength, bestPath,
                          minD, maxD, oldT, newT)
    IN  IF r.done THEN r.comps
        ELSE execEditLength(editLength + 1, r.bestPath, r.minD, r.maxD,
                            oldT, newT)

RECURSIVE buildValues(_, _, _, _, _)
buildValues(components, newT, oldT, newPos, oldPos) ==
  IF components = <<>> THEN <<>>
  ELSE
    LET c == Head(components)
        value == IF ~c.removed
                 THEN Join(SubSeq(newT, newPos + 1, newPos + c.count))
                 ELSE Join(SubSeq(oldT, oldPos + 1, oldPos + c.count))
    IN  <<[count |-> c.count, added |-> c.added, removed |-> c.removed,
           value |-> value]>>
        \o buildValues(Tail(components), newT, oldT,
                       IF ~c.removed THEN newPos + c.count ELSE newPos,
                       IF c.removed \/ ~c.added THEN oldPos + c.count ELSE oldPos)

diffLines(oldStr, newStr) ==
  LET oldT == removeEmpty(tokenize(oldStr))
      newT == removeEmpty(tokenize(newStr))
      infinity == Len(oldT) + Len(newT) + 1
      seed == extractCommon([oldPos |-> -1, comps |-> <<>>], newT, oldT, 0)
      components ==
        IF seed.oldPos + 1 >= Len(oldT) /\ seed.oldPos + 1 >= Len(newT)
        THEN seed.comps
        ELSE execEditLength(1, (0 :> seed), -infinity, infinity, oldT, newT)
  IN  buildValues(components, newT, oldT, 0, 0)

(***************************************************************************)
(* DiffViewer.  One render is OutputPanel handing over the texts, the      *)
(* call of diffLines, and getDiffRows walking the parts line by line.      *)
(***************************************************************************)
\* const oldLines / newLines = normalizeText(content).split('\n')
oldLines(content) == SplitLF(normalizeText(content))
newLines(content) == SplitLF(normalizeText(content))

\* Mutant of PartLines: the trailing empty element is not popped.
PartLinesNoPop(part) == SplitLF(part.value)

\* Mutant of PartLines: every empty element is dropped.
PartLinesDropEmpty(part) == SelectSeq(SplitLF(part.value), LAMBDA l : l /= <<>>)

\* part.value.split('\n') with a trailing empty element popped.
PartLines(part) ==
  LET ls == SplitLF(part.value)
  IN  IF ls[Len(ls)] = <<>> THEN SubSeq(ls, 1, Len(ls) - 1) ELSE ls

\* Absent index (null).
None == 0

\* Mutant of MakeRow: a removed row also carries the new counter.
MakeRowDelWithNew(part, line, old, new) ==
  IF part.added
  THEN [oldIdx |-> None, newIdx |-> new, kind |-> "add", text |-> line]
  ELSE IF part.removed
  THEN [oldIdx |-> old, newIdx |-> new, kind |-> "del", text |-> line]
  ELSE [oldIdx |-> old, newIdx |-> new, kind |-> "equal", text |-> line]

MakeRow(part, line, old, new) ==
  IF part.added
  THEN [oldIdx |-> None, newIdx |-> new, kind |-> "add", text |-> line]
  ELSE IF part.removed
  THEN [oldIdx |-> old, newIdx |-> None, kind |-> "del", text |-> line]
  ELSE [oldIdx |-> old, newIdx |-> new, kind |-> "equal", text |-> line]

\* Mutants of NextOldIdx: the old counter is not advanced by a removed
\* line; the old counter is not advanced by an unchanged line.
NextOldIdxNotOnDel(part, old) == IF part.added \/ part.removed THEN old ELSE old + 1
NextOldIdxNotOnEqual(part, old) == IF ~part.added /\ part.removed THEN old + 1 ELSE old

\* Mutant of NextNewIdx: the new counter is advanced by every line.
NextNewIdxAlways(part, new) == new + 1

NextOldIdx(part, old) == IF part.added THEN old ELSE old + 1
NextNewIdx(part, new) == IF ~part.added /\ part.removed THEN new ELSE new + 1

\* The gutter cell of an index: {oldIdx || ''}.
Gutter(idx) == IF idx = None THEN "" ELSE ToString(idx)

\* Mutant of OldContentProp: markdownInput is passed on as it is.
OldContentPropRaw(input) == input

\* The props OutputPanel passes to DiffViewer.
OldContentProp(input) == OrEmpty(input)
NewContentProp(md) == OrEmpty(md)

\* The diff view before its first render.
DiffAtRest ==
  /\ oldContent = JSString(<<>>)
  /\ newContent = JSString(<<>>)
  /\ lineDiff = <<>>
  /\ partPos = 1
  /\ lines = <<>>
  /\ oldIdx = 1
  /\ newIdx = 1
  /\ rows = <<>>
  /\ pc = "idle"
  /\ rendered = <<>>
  /\ prevRendered = <<>>
  /\ renders = 0

NoToast == [kind |-> "none", message |-> "none"]

\* No LLM request in flight and none made yet.
NoRequest ==
  [pc |-> "idle", markdown |-> JSUndefined, instructions |-> <<>>,
   originalMarkdown |-> JSUndefined, originalInstructions |-> <<>>,
   result |-> [markdown |-> JSUndefined, summary |-> JSUndefined],
   before |-> JSUndefined, inFlight |-> 0]

\* No file being read.
NoUpload == [pc |-> "idle", text |-> <<>>]

\* ControlPanel as mounted by App: useState('') for summary and instructions,
\* useState(false) for isProcessing, an empty file input.
ControlAtRest ==
  /\ summary = <<>>
  /\ instructions = <<>>
  /\ isProcessing = FALSE
  /\ fileInput = <<>>
  /\ toast = NoToast
  /\ llm = NoRequest
  /\ upload = NoUpload
  /\ controlEvent = "none"

\* linkCredentials not called.
NoLink ==
  [pc |-> "idle", n |-> 0, user |-> "undefined", credential |-> "undefined",
   linkCalls |-> <<>>, errorCalls |-> <<>>, toasts |-> <<>>,
   thrown |-> "none", handler |-> "none"]

LinkAtRest == link = NoLink

\* captureMarkdownPreview not called.
NotCalled ==
  [pc |-> "idle", ref |-> "undefined", imagesPending |-> 0,
   appended |-> 0, removed |-> 0, result |-> "none"]

NoCapture == [calls |-> [i \in 1..MaxCalls |-> NotCalled], body |-> {}]

CaptureAtRest == capture = NoCapture

\* UserPanel as mounted.
\* createContext's default value.
DefaultContext ==
  [user |-> "null", loading |-> TRUE, subscribed |-> FALSE,
   paymentEnabled |-> FALSE, portalAccess |-> FALSE]

\* No rejection seen.
NoFailure == [message |-> "none", string |-> "none"]

\* What UserPanel returned from its last render.
NothingRendered ==
  [view |-> "nothing", upgradeDisabled |-> TRUE, upgradeLabel |-> "none",
   billingDisabled |-> TRUE, billingLabel |-> "none", alert |-> "null"]

NoPanel ==
  [ctx |-> DefaultContext, userPanel |-> FALSE, isCheckoutBusy |-> FALSE,
   isPortalBusy |-> FALSE, error |-> "null",
   checkout |-> [pc |-> "idle", inFlight |-> 0, redirects |-> 0, unsubs |-> 0],
   portal |-> [pc |-> "idle", inFlight |-> 0],
   dom |-> NothingRendered, event |-> "none", failure |-> NoFailure]

PanelAtRest == panel = NoPanel

\* AuthProvider as mounted.
NoProvider ==
  [status |-> "idle", user |-> "null", loading |-> TRUE, subscribed |-> FALSE,
   paymentEnabled |-> FALSE, portalAccess |-> FALSE, priceId |-> "null",
   effectUser |-> "null", effectPayment |-> FALSE, effectSubscribed |-> FALSE,
   pending |-> FALSE,
   authListener |-> "none", configListener |-> "none", subscriptions |-> <<>>,
   authRegistered |-> 0, configRegistered |-> 0, config |-> "none"]

ProviderAtRest == provider = NoProvider

\* UserAuth as mounted.
\* No sign-in made yet.
NoSignIn ==
  [pc |-> "idle", provider |-> "none", credential |-> "null",
   stored |-> "null", discarded |-> FALSE, linkCalls |-> <<>>,
   error |-> "none", pending |-> "null", account |-> "null",
   toasts |-> <<>>]

NoUserAuth ==
  [user |-> "null", credential |-> "null", signInDropdownOpen |-> FALSE,
   accountLinkingModal |-> FALSE, signingIn |-> FALSE, userPanel |-> FALSE,
   discarded |-> FALSE, signIn |-> NoSignIn, popups |-> 0, event |-> "none"]

UserAuthAtRest == userAuth = NoUserAuth

\* useTheme before its first render: useState(null); nothing stored, no
\* class on document.body, the system preferring a light scheme.
NoTheme ==
  [status |-> "idle", theme |-> "null", defaultTheme |-> "light",
   effectDefault |-> "none", effectTheme |-> "none", pending |-> FALSE,
   darkMode |-> FALSE, stored |-> "null", body |-> {},
   themeDropdownOpen |-> FALSE, selected |-> "null", event |-> "none",
   mount |-> [stored |-> "null", darkMode |-> FALSE]]

ThemeAtRest == theming = NoTheme

Init ==
  /\ markdown \in {JSString(t) : t \in Texts} \cup {JSNull, JSUndefined}
  /\ markdownInput \in {JSString(t) : t \in Texts} \cup {JSNull, JSUndefined}
  /\ oldContent = JSString(<<>>)
  /\ newContent = JSString(<<>>)
  /\ lineDiff = <<>>
  /\ partPos = 1
  /\ lines = <<>>
  /\ oldIdx = 1
  /\ newIdx = 1
  /\ rows = <<>>
  /\ pc = "idle"
  /\ rendered = <<>>
  /\ prevRendered = <<>>
  /\ renders = 0
  /\ ControlAtRest
  /\ LinkAtRest
  /\ CaptureAtRest
  /\ PanelAtRest
  /\ ProviderAtRest
  /\ UserAuthAtRest
  /\ ThemeAtRest

\* OutputPanel renders DiffViewer, whose body calls diffLines; a value that
\* is no string makes the call throw.
RenderDiffViewer ==
  /\ pc = "idle"
  /\ oldContent' = OldContentProp(markdownInput)
  /\ newContent' = NewContentProp(markdown)
  /\ IF IsString(oldContent') /\ IsString(newContent')
     THEN /\ lineDiff' = diffLines(oldContent'.val, newContent'.val)
          /\ pc' = "getDiffRows"
     ELSE /\ lineDiff' = <<>>
          /\ pc' = "threw"
  /\ UNCHANGED <<markdown, markdownInput, partPos, lines, oldIdx, newIdx, rows,
                 rendered, prevRendered, renders>>
  /\ UNCHANGED nonDiffVars

\* Mutants of StartRows: the counters start at 0; the counters are not set
\* again and keep the values the last computation left.
StartRowsFromZero ==
  /\ pc = "getDiffRows"
  /\ rows' = <<>>
  /\ oldIdx' = 0
  /\ newIdx' = 0
  /\ partPos' = 1
  /\ lines' = <<>>
  /\ pc' = "parts"
  /\ UNCHANGED <<markdown, markdownInput, oldContent, newContent, lineDiff,
                 rendered, prevRendered, renders>>
  /\ UNCHANGED nonDiffVars

StartRowsKeepCounters ==
  /\ pc = "getDiffRows"
  /\ rows' = <<>>
  /\ partPos' = 1
  /\ lines' = <<>>
  /\ pc' = "parts"
  /\ UNCHANGED <<markdown, markdownInput, oldContent, newContent, lineDiff,
                 oldIdx, newIdx, rendered, prevRendered, renders>>
  /\ UNCHANGED nonDiffVars

\* getDiffRows begins: const rows = []; let oldIdx = 1; let newIdx = 1.
StartRows ==
  /\ pc = "getDiffRows"
  /\ rows' = <<>>
  /\ oldIdx' = 1
  /\ newIdx' = 1
  /\ partPos' = 1
  /\ lines' = <<>>
  /\ pc' = "parts"
  /\ UNCHANGED <<markdown, markdownInput, oldContent, newContent, lineDiff,
                 rendered, prevRendered, renders>>
  /\ UNCHANGED nonDiffVars

\* for (const part of lineDiff): split the part into its lines.
NextPart ==
  /\ pc = "parts"
  /\ partPos <= Len(lineDiff)
  /\ lines' = PartLines(lineDiff[partPos])
  /\ IF lines' = <<>>
     THEN partPos' = partPos + 1 /\ pc' = "parts"
     ELSE partPos' = partPos /\ pc' = "lines"
  /\ UNCHANGED <<markdown, markdownInput, oldContent, newContent, lineDiff,
                 oldIdx, newIdx, rows, rendered, prevRendered, renders>>
  /\ UNCHANGED nonDiffVars

\* Mutant of PushRow: the row is put in front of the rows (unshift).
PushRowFront ==
  /\ pc = "lines"
  /\ lines # <<>>
  /\ LET part == lineDiff[partPos]
     IN  /\ rows' = <<MakeRow(part, Head(lines), oldIdx, newIdx)>> \o rows
         /\ oldIdx' = NextOldIdx(part, oldIdx)
         /\ newIdx' = NextNewIdx(part, newIdx)
  /\ lines' = Tail(lines)
  /\ IF lines' = <<>>
     THEN partPos' = partPos + 1 /\ pc' = "parts"
     ELSE partPos' = partPos /\ pc' = "lines"
  /\ UNCHANGED <<markdown, markdownInput, oldContent, newContent, lineDiff,
                 rendered, prevRendered, renders>>
  /\ UNCHANGED nonDiffVars

\* for (const line of lines): one row is pushed.
PushRow ==
  /\ pc = "lines"
  /\ lines # <<>>
  /\ LET part == lineDiff[partPos]
     IN  /\ rows' = Append(rows, MakeRow(part, Head(lines), oldIdx, newIdx))
         /\ oldIdx' = NextOldIdx(part, oldIdx)
         /\ newIdx' = NextNewIdx(part, newIdx)
  /\ lines' = Tail(lines)
  /\ IF lines' = <<>>
     THEN partPos' = partPos + 1 /\ pc' = "parts"
     ELSE partPos' = partPos /\ pc' = "lines"
  /\ UNCHANGED <<markdown, markdownInput, oldContent, newContent, lineDiff,
                 rendered, prevRendered, renders>>
  /\ UNCHANGED nonDiffVars

\* return rows; the rows are rendered.
ReturnRows ==
  /\ pc = "parts"
  /\ partPos > Len(lineDiff)
  /\ rendered' = rows
  /\ prevRendered' = rendered
  /\ renders' = renders + 1
  /\ pc' = "done"
  /\ UNCHANGED <<markdown, markdownInput, oldContent, newContent, lineDiff,
                 partPos, lines, oldIdx, newIdx, rows>>
  /\ UNCHANGED nonDiffVars

\* The component is rendered again with the same props.
Rerender ==
  /\ pc = "done"
  /\ renders < MaxRenders
  /\ pc' = "idle"
  /\ UNCHANGED <<markdown, markdownInput, oldContent, newContent, lineDiff,
                 partPos, lines, oldIdx, newIdx, rows, rendered, prevRendered,
                 renders>>
  /\ UNCHANGED nonDiffVars

\* The editor changes the markdown (a character is typed), which renders
\* the panel with a new text; rendered and prevRendered keep the rows of the
\* renders of the current texts only.
SetMarkdown ==
  /\ pc = "done"
  /\ IsString(markdown)
  /\ Len(markdown.val) < MaxLen
  /\ \E ch \in Alphabet : markdown' = JSString(Append(markdown.val, ch))
  /\ renders' = 0
  /\ rendered' = <<>>
  /\ prevRendered' = <<>>
  /\ pc' = "idle"
  /\ UNCHANGED <<markdownInput, oldContent, newContent, lineDiff, partPos,
                 lines, oldIdx, newIdx, rows>>
  /\ UNCHANGED nonDiffVars

Next ==
  \/ RenderDiffViewer
  \/ StartRows
  \/ NextPart
  \/ PushRow
  \/ ReturnRows
  \/ Rerender
  \/ SetMarkdown

Spec == Init /\ [][Next]_vars

TypeOK ==
  /\ pc \in {"idle", "getDiffRows", "parts", "lines", "done", "threw"}
  /\ renders \in 0..MaxRenders

(***************************************************************************)
(* Properties of the diff rows.                                            *)
(***************************************************************************)
Done == pc = "done"
OldText == oldContent.val
NewText == newContent.val
HasOld(r) == r.oldIdx # None
HasNew(r) == r.newIdx # None
CountOld(rs) == Len(SelectSeq(rs, HasOld))
CountNew(rs) == Len(SelectSeq(rs, HasNew))

\* The lines of a text when only the line feed separates lines and a final
\* line feed ends the last line instead of opening an empty one.
TextLines(text) ==
  LET ls == SplitLF(text)
  IN  IF ls[Len(ls)] = <<>> THEN SubSeq(ls, 1, Len(ls) - 1) ELSE ls

C2_IndicesStrictlyIncrease ==
  \A i, j \in 1..Len(rows) :
    i < j =>
      /\ (HasOld(rows[i]) /\ HasOld(rows[j]) => rows[i].oldIdx < rows[j].oldIdx)
      /\ (HasNew(rows[i]) /\ HasNew(rows[j]) => rows[i].newIdx < rows[j].newIdx)

C2_Witness ==
  /\ Done
  /\ Len(rows) = 3
  /\ rows[1].kind = "del" /\ rows[2].kind = "del" /\ rows[3].kind = "add"
  /\ rows[1].oldIdx = 1 /\ rows[2].oldIdx = 2 /\ rows[3].newIdx = 1

\* C3: an added row has no old index and a new index, a removed row has no
\* new index and an old index, an unchanged row has both; no row has neither.
C3_IndexPresenceByKind ==
  \A i \in 1..Len(rows) :
    LET r == rows[i]
    IN  /\ r.kind \in {"add", "del", "equal"}
        /\ r.kind = "add" => ~HasOld(r) /\ HasNew(r)
        /\ r.kind = "del" => HasOld(r) /\ ~HasNew(r)
        /\ r.kind = "equal" => HasOld(r) /\ HasNew(r)
        /\ HasOld(r) \/ HasNew(r)

C3_Witness ==
  /\ Done
  /\ \E i, j, k \in 1..Len(rows) :
       rows[i].kind = "add" /\ rows[j].kind = "del" /\ rows[k].kind = "equal"

IsLine(l) == l # <<>> /\ \A i \in 1..Len(l) : l[i] \notin {CR, LF}
Row(old, new, kind, text) ==
  [oldIdx |-> old, newIdx |-> new, kind |-> kind, text |-> text]
GutterCells(rs) ==
  [i \in 1..Len(rs) |-> <<Gutter(rs[i].oldIdx), Gutter(rs[i].newIdx)>>]

\* The old text is the two lines a, c and the new text the two lines b, c.
C4_Case ==
  /\ Done
  /\ Len(SplitLF(OldText)) = 2
  /\ Len(SplitLF(NewText)) = 2
  /\ \A l \in {SplitLF(OldText)[1], SplitLF(OldText)[2],
               SplitLF(NewText)[1], SplitLF(NewText)[2]} : IsLine(l)
  /\ SplitLF(OldText)[2] = SplitLF(NewText)[2]
  /\ Trim(SplitLF(OldText)[1]) # Trim(SplitLF(NewText)[1])

C4_ThreeRows ==
  /\ rendered = <<Row(1, None, "del", SplitLF(OldText)[1]),
                  Row(None, 1, "add", SplitLF(NewText)[1]),
                  Row(2, 2, "equal", SplitLF(NewText)[2])>>
  /\ GutterCells(rendered) = << <<"1", "">>, <<"", "1">>, <<"2", "2">> >>

\* C4 as stated: old lines a, c and new lines b, c, with a and b differing by
\* more than whitespace, give the rows removed a (1, none), added b (none, 1),
\* unchanged c (2, 2), and the gutters show these numbers.
C4_MixedCaseAnyThirdLine == C4_Case => C4_ThreeRows

\* C4 amended: the same, for a line c that differs by more than whitespace
\* from both a and b.
C4_MixedCaseDistinctThirdLine ==
  (/\ C4_Case
   /\ Trim(SplitLF(OldText)[2]) # Trim(SplitLF(OldText)[1])
   /\ Trim(SplitLF(OldText)[2]) # Trim(SplitLF(NewText)[1]))
  => C4_ThreeRows

C4_Witness ==
  /\ Done
  /\ OldText = <<"a", LF, "c">>
  /\ NewText = <<"b", LF, "c">>
  /\ Len(rendered) = 3
  /\ rendered[3] = Row(2, 2, "equal", <<"c">>)

\* C5: equal, non-empty texts give only unchanged rows, each with its old
\* index equal to its new index.
C5_IdenticalTextsAllUnchanged ==
  (Done /\ OldText = NewText /\ OldText # <<>>) =>
    \A i \in 1..Len(rendered) :
      rendered[i].kind = "equal" /\ rendered[i].oldIdx = rendered[i].newIdx

C5_Witness ==
  /\ Done
  /\ OldText = <<"a", LF, "b">>
  /\ NewText = OldText
  /\ Len(rendered) = 2
  /\ rendered[2].oldIdx = 2

AllAdded(rs, n) ==
  /\ Len(rs) = n
  /\ \A i \in 1..Len(rs) :
       rs[i].kind = "add" /\ rs[i].newIdx = i /\ rs[i].oldIdx = None
AllRemoved(rs, n) ==
  /\ Len(rs) = n
  /\ \A i \in 1..Len(rs) :
       rs[i].kind = "del" /\ rs[i].oldIdx = i /\ rs[i].newIdx = None

Range(f) == {f[i] : i \in DOMAIN f}
RowShape(rs) ==
  [i \in 1..Len(rs) |-> <<rs[i].kind, rs[i].oldIdx, rs[i].newIdx>>]

PartKind(part) ==
  IF part.added THEN "add" ELSE IF part.removed THEN "del" ELSE "equal"

\* The lines of the parts, each with its part's tag, in the order of the
\* parts and, within a part, of its lines.
RECURSIVE TaggedLines(_)
TaggedLines(parts) ==
  IF parts = <<>> THEN <<>>
  ELSE [i \in 1..Len(TextLines(Head(parts).value)) |->
          <<PartKind(Head(parts)), TextLines(Head(parts).value)[i]>>]
       \o TaggedLines(Tail(parts))

\* The rows that tagged lines stand for: the k-th line with an old side has
\* old index k, the k-th line with a new side has new index k.
IndexedRows(tagged) ==
  [i \in 1..Len(tagged) |->
     Row(IF tagged[i][1] = "add" THEN None
         ELSE Cardinality({j \in 1..i : tagged[j][1] # "add"}),
         IF tagged[i][1] = "del" THEN None
         ELSE Cardinality({j \in 1..i : tagged[j][1] # "del"}),
         tagged[i][1], tagged[i][2])]

\* Every line of the text ends or is separated by \r\n, and no other \r or
\* \n occurs; the text has no \r at all.
IsCRLFText(t) ==
  /\ \E i \in 1..Len(t) : t[i] = CR
  /\ \A i \in 1..Len(t) : t[i] = CR => i < Len(t) /\ t[i + 1] = LF
  /\ \A i \in 1..Len(t) : t[i] = LF => i > 1 /\ t[i - 1] = CR
IsLFText(t) == \A i \in 1..Len(t) : t[i] # CR

\* C7: an old text with \r\n line breaks and a new text with \n line breaks
\* give the rows that the old text with \n line breaks gives, kind by kind
\* and index by index, and no row text holds a carriage return.
C7_CRLFGivesSameRowsNoCR ==
  (Done /\ IsCRLFText(OldText) /\ IsLFText(NewText)) =>
    /\ RowShape(rendered) =
         RowShape(IndexedRows(TaggedLines(
           diffLines(ReplaceCRLF(OldText, 1), NewText))))
    /\ \A i \in 1..Len(rendered) : CR \notin Range(rendered[i].text)

\* C8: the rows are the lines of the parts, in the order of the parts and of
\* the lines within each part, one row per line, with the part's tag as kind
\* and the line as text; while the rows are being built they are the first
\* of these.
C8_RowsFollowPartsInOrder ==
  LET expected == TaggedLines(lineDiff)
      got == [i \in 1..Len(rows) |-> <<rows[i].kind, rows[i].text>>]
  IN  (pc \in {"parts", "lines", "done"}) =>
        /\ Len(got) <= Len(expected)
        /\ got = SubSeq(expected, 1, Len(got))
        /\ Done => got = expected /\ rendered = rows

C8_Witness ==
  /\ Done
  /\ Len(lineDiff) = 2
  /\ lineDiff[1].removed /\ lineDiff[1].count = 1
  /\ lineDiff[2].added /\ lineDiff[2].count = 2
  /\ [i \in 1..Len(rendered) |-> rendered[i].kind] = <<"del", "add", "add">>
  /\ rendered[2].text # rendered[3].text

\* C9: rendering the same two texts again gives the same rows: the second
\* computation starts its counters at 1 again and takes nothing over from
\* the first.
C9_SecondRenderSameRows ==
  /\ (Done /\ renders >= 2) => rendered = prevRendered
  /\ (pc = "parts" /\ rows = <<>>) => oldIdx = 1 /\ newIdx = 1

C9_Witness ==
  /\ Done
  /\ renders = 2
  /\ Len(rendered) = 3
  /\ rendered = prevRendered
  /\ oldIdx = 3 /\ newIdx = 3

\* C10: no render throws, DiffViewer is only ever given strings, and two
\* empty texts give no row or one unchanged row with empty text.
C10_EmptyTextsNoError ==
  /\ pc # "threw"
  /\ pc # "idle" => IsString(oldContent) /\ IsString(newContent)
  /\ (Done /\ OldText = <<>> /\ NewText = <<>>) =>
       rendered \in {<<>>, <<Row(1, 1, "equal", <<>>)>>}

C10_Witness ==
  /\ Done
  /\ markdownInput = JSNull
  /\ markdown = JSUndefined
  /\ OldText = <<>> /\ NewText = <<>>
  /\ rendered = <<>>

RECURSIVE Unlines(_)
\* Every line followed by a line feed.
Unlines(ls) ==
  IF ls = <<>> THEN <<>> ELSE Head(ls) \o <<LF>> \o Unlines(Tail(ls))

\* The line feeds of a text.
LineFeeds(text) == Len(SelectSeq(text, LAMBDA c : c = LF))

\* The lines of a part against its text: one per line feed if the text ends
\* with a line feed, one more if it does not, and each with the characters
\* between two line feeds, none if the line is empty.
SplitsPart(ls, text) ==
  IF text = <<>>
  THEN ls = <<>>
  ELSE IF text[Len(text)] = LF
       THEN Len(ls) = LineFeeds(text) /\ Unlines(ls) = text
       ELSE Len(ls) = LineFeeds(text) + 1 /\ Unlines(ls) = text \o <<LF>>

\* C25: getDiffRows splits a part's text on \n and drops only a single
\* trailing empty element: a text that ends with a line feed yields one line
\* per line feed, a last line without a line feed still yields a line, and
\* an empty line inside the part yields a line with empty text.
C25_PartSplit ==
  [][NextPart => SplitsPart(lines', lineDiff[partPos].value)]_vars

\* A part with an empty line before its last line feed is being walked.
C25_Witness ==
  /\ pc = "lines"
  /\ lineDiff[partPos].value = <<"a", LF, LF>>
  /\ lines = << <<"a">>, <<>> >>

(***************************************************************************)
(* ControlPanel: the instructions field, the send button and the file      *)
(* upload.  An await splits a handler into the step before it and the step *)
(* that resumes it; what a handler read when it was created (its closure)  *)
(* is kept in llm and upload.                                              *)
(***************************************************************************)

\* Texts that the editor, the instructions field, a file and the LLM produce.
MarkdownTexts == {<<>>, <<"a">>, <<"b", LF, "c">>}
InstructionTexts == {<<>>, <<"c">>}
SummaryTexts == {<<>>, <<"b">>}
FileTexts == {<<>>, <<"c">>}

\* The JSON object sendToLLM resolves with: either field may be missing,
\* null or a string.
Results ==
  [markdown : {JSUndefined, JSNull} \cup {JSString(t) : t \in MarkdownTexts},
   summary : {JSUndefined, JSNull} \cup {JSString(t) : t \in SummaryTexts}]

IsNullish(v) == v.type \in {"null", "undefined"}

\* v ?? d
Nullish(v, d) == IF IsNullish(v) THEN d ELSE v

SuccessToast == [kind |-> "success", message |-> "LLM request completed."]
FailureToast ==
  [kind |-> "error", message |-> "LLM request failed. Please try again."]
FileToast == [kind |-> "error", message |-> "Failed to read file"]

\* App and ControlPanel freshly mounted; the editor holds the default document.
ControlInit ==
  /\ markdown = JSString(<<"a">>)
  /\ markdownInput = JSString(<<>>)
  /\ DiffAtRest
  /\ ControlAtRest
  /\ LinkAtRest
  /\ CaptureAtRest
  /\ PanelAtRest
  /\ ProviderAtRest
  /\ UserAuthAtRest
  /\ ThemeAtRest

EditorChangeSetsBaseline ==
  \E t \in MarkdownTexts :
    /\ markdown' = JSString(t)
    /\ markdownInput' = JSString(t)
    /\ controlEvent' = "EditorChange"
    /\ UNCHANGED <<summary, instructions, isProcessing, fileInput, toast, llm,
                   upload>>
    /\ UNCHANGED nonControlVars

\* The editor's onChange: setMarkdown(value).  The editor is never disabled.
EditorChange ==
  \E t \in MarkdownTexts :
    /\ markdown' = JSString(t)
    /\ controlEvent' = "EditorChange"
    /\ UNCHANGED <<markdownInput, summary, instructions, isProcessing,
                   fileInput, toast, llm, upload>>
    /\ UNCHANGED nonControlVars

\* The instructions field's onChange; the field is disabled while a request
\* is processed.
InstructionsChange ==
  \E t \in InstructionTexts :
    /\ ~isProcessing
    /\ instructions' = t
    /\ controlEvent' = "InstructionsChange"
    /\ UNCHANGED <<markdown, markdownInput, summary, isProcessing, fileInput,
                   toast, llm, upload>>
    /\ UNCHANGED nonControlVars

SendNeverDisabled(processing) == FALSE

\* The send button: disabled={isProcessing}
SendDisabled(processing) == processing

\* onKeyDown of the instructions field: e.key === 'Enter' && !isProcessing;
\* the field is disabled while isProcessing.
EnterSends(processing) == ~processing

\* onSendToLLM up to its first await, started by the button or by the Enter
\* key.  llm.inFlight counts the calls that have not settled.
SendToLLM ==
  /\ ~SendDisabled(isProcessing) \/ EnterSends(isProcessing)
  /\ llm.inFlight < MaxCalls
  /\ isProcessing' = TRUE
  /\ llm' = [llm EXCEPT !.pc = "capture",
                        !.inFlight = @ + 1,
                        !.markdown = markdown,
                        !.instructions = instructions,
                        !.originalMarkdown = markdown,
                        !.originalInstructions = instructions]
  /\ controlEvent' = "SendToLLM"
  /\ UNCHANGED <<markdown, markdownInput, summary, instructions, fileInput,
                 toast, upload>>
  /\ UNCHANGED nonControlVars

\* captureMarkdownPreview resolved; sendToLLM is called with the closure's
\* markdown and instructions.
PreviewCaptured ==
  /\ llm.pc = "capture"
  /\ llm' = [llm EXCEPT !.pc = "request"]
  /\ controlEvent' = "PreviewCaptured"
  /\ UNCHANGED <<markdown, markdownInput, summary, instructions, isProcessing,
                 fileInput, toast, upload>>
  /\ UNCHANGED nonControlVars

\* What the try block writes to markdown after sendToLLM resolved.
ResultMarkdownOr(result, sent) ==
  IF IsNullish(result.markdown) \/ result.markdown = JSString(<<>>)
  THEN sent
  ELSE result.markdown

ResultMarkdown(result, sent) == Nullish(result.markdown, sent)

ResultSummary(result) == Nullish(result.summary, JSString(<<>>))

\* sendToLLM resolved: the rest of the try block, then finally.
SendSucceeded ==
  \E result \in Results :
    /\ llm.pc = "request"
    /\ markdownInput' = llm.markdown
    /\ markdown' = ResultMarkdown(result, llm.markdown)
    /\ summary' = ResultSummary(result).val
    /\ instructions' = <<>>
    /\ toast' = SuccessToast
    /\ isProcessing' = FALSE
    /\ llm' = [NoRequest EXCEPT !.result = result, !.before = markdown,
                                !.inFlight = llm.inFlight - 1]
    /\ controlEvent' = "SendSucceeded"
    /\ UNCHANGED <<fileInput, upload>>
    /\ UNCHANGED nonControlVars

SendFailedKeepsEdits ==
  /\ llm.pc \in {"capture", "request"}
  /\ instructions' = llm.originalInstructions
  /\ toast' = FailureToast
  /\ isProcessing' = FALSE
  /\ llm' = [NoRequest EXCEPT !.before = markdown,
                              !.inFlight = llm.inFlight - 1]
  /\ controlEvent' = "SendFailed"
  /\ UNCHANGED <<markdown, markdownInput, summary, fileInput, upload>>
  /\ UNCHANGED nonControlVars

\* captureMarkdownPreview or sendToLLM rejected: the catch block, then
\* finally.
SendFailed ==
  /\ llm.pc \in {"capture", "request"}
  /\ markdown' = llm.originalMarkdown
  /\ instructions' = llm.originalInstructions
  /\ toast' = FailureToast
  /\ isProcessing' = FALSE
  /\ llm' = [NoRequest EXCEPT !.before = markdown,
                              !.inFlight = llm.inFlight - 1]
  /\ controlEvent' = "SendFailed"
  /\ UNCHANGED <<markdownInput, summary, fileInput, upload>>
  /\ UNCHANGED nonControlVars

\* The file dialog was closed without a file: e.target.files[0] is undefined.
SelectNoFile ==
  /\ upload.pc = "idle"
  /\ controlEvent' = "SelectNoFile"
  /\ UNCHANGED <<markdown, markdownInput, summary, instructions, isProcessing,
                 fileInput, toast, llm, upload>>
  /\ UNCHANGED nonControlVars

\* onSelectFile with a file, up to await readFileAsText(file).  The browser
\* has put the file's name in the input.
SelectFile ==
  \E t \in FileTexts :
    /\ upload.pc = "idle"
    /\ upload' = [pc |-> "reading", text |-> t]
    /\ fileInput' = <<"f">>
    /\ controlEvent' = "SelectFile"
    /\ UNCHANGED <<markdown, markdownInput, summary, instructions,
                   isProcessing, toast, llm>>
    /\ UNCHANGED nonControlVars

FileReadKeepsInput ==
  /\ upload.pc = "reading"
  /\ markdown' = JSString(upload.text)
  /\ upload' = NoUpload
  /\ controlEvent' = "FileRead"
  /\ UNCHANGED <<markdownInput, summary, instructions, isProcessing, toast,
                 llm, fileInput>>
  /\ UNCHANGED nonControlVars

\* readFileAsText resolved: setMarkdown(text) and the input is emptied.
FileRead ==
  /\ upload.pc = "reading"
  /\ markdown' = JSString(upload.text)
  /\ fileInput' = <<>>
  /\ upload' = NoUpload
  /\ controlEvent' = "FileRead"
  /\ UNCHANGED <<markdownInput, summary, instructions, isProcessing, toast,
                 llm>>
  /\ UNCHANGED nonControlVars

\* readFileAsText rejected: the catch block.
FileReadFailed ==
  /\ upload.pc = "reading"
  /\ toast' = FileToast
  /\ upload' = NoUpload
  /\ controlEvent' = "FileReadFailed"
  /\ UNCHANGED <<markdown, markdownInput, summary, instructions, isProcessing,
                 fileInput, llm>>
  /\ UNCHANGED nonControlVars

ControlNext ==
  \/ EditorChange
  \/ InstructionsChange
  \/ SendToLLM
  \/ PreviewCaptured
  \/ SendSucceeded
  \/ SendFailed
  \/ SelectNoFile
  \/ SelectFile
  \/ FileRead
  \/ FileReadFailed

SpecControl == ControlInit /\ [][ControlNext]_vars

\* The steps that read or write isProcessing, and the edits that can come
\* between them.  The file upload touches neither isProcessing nor the
\* request and is left to SpecControl.
RequestNext ==
  \/ EditorChange
  \/ InstructionsChange
  \/ SendToLLM
  \/ PreviewCaptured
  \/ SendSucceeded
  \/ SendFailed

\* The capture and the network call settle: an awaited promise that can
\* resolve or reject eventually does one of the two.
SpecRequestFair ==
  /\ ControlInit
  /\ [][RequestNext]_vars
  /\ WF_vars(PreviewCaptured \/ SendSucceeded \/ SendFailed)

\* C11: when a request started by onSendToLLM succeeds, markdownInput is the
\* markdown that was sent, markdown is result.markdown unless that is null or
\* undefined and then the markdown that was sent, summary is result.summary
\* or else the empty string, instructions is empty, the success toast is
\* shown and isProcessing is false.
C11_SuccessPostState ==
  [][controlEvent' = "SendSucceeded" =>
       /\ markdownInput' = llm.markdown
       /\ markdown' = IF llm'.result.markdown.type \in {"null", "undefined"}
                      THEN llm.markdown
                      ELSE llm'.result.markdown
       /\ summary' = IF llm'.result.summary.type \in {"null", "undefined"}
                     THEN <<>>
                     ELSE llm'.result.summary.val
       /\ instructions' = <<>>
       /\ toast' = SuccessToast
       /\ isProcessing' = FALSE]_vars

\* A request sent with "a" came back with an empty markdown while the editor
\* had been changed to two other lines.
C11_Witness ==
  /\ controlEvent = "SendSucceeded"
  /\ llm.result.markdown = JSString(<<>>)
  /\ llm.before = JSString(<<"b", LF, "c">>)
  /\ markdownInput = JSString(<<"a">>)
  /\ markdown = JSString(<<>>)
  /\ ~isProcessing

\* C12: when the preview capture or the LLM request fails, markdown is again
\* what it was when the request was sent, whatever was typed meanwhile,
\* instructions is what it was at send time, markdownInput and summary are
\* unchanged, the failure toast is shown and isProcessing is false.
C12_FailurePostState ==
  [][controlEvent' = "SendFailed" =>
       /\ markdown' = llm.originalMarkdown
       /\ instructions' = llm.originalInstructions
       /\ UNCHANGED <<markdownInput, summary>>
       /\ toast' = FailureToast
       /\ isProcessing' = FALSE]_vars

\* A request failed after the editor's text had been changed, and the change
\* is gone.
C12_Witness ==
  /\ controlEvent = "SendFailed"
  /\ llm.before /= markdown
  /\ toast = FailureToast
  /\ ~isProcessing

\* C13: a file that is read makes markdown the file's text and empties the
\* file input; a failed read shows 'Failed to read file' and leaves markdown
\* alone; no file, nothing happens; markdownInput, summary and instructions
\* change in none of these cases.
C13_FileSelection ==
  [][/\ controlEvent' = "FileRead" =>
          markdown' = JSString(upload.text) /\ fileInput' = <<>>
     /\ controlEvent' = "FileReadFailed" =>
          toast' = FileToast /\ UNCHANGED markdown
     /\ controlEvent' = "SelectNoFile" =>
          UNCHANGED <<markdown, fileInput, toast, isProcessing, upload, llm>>
     /\ controlEvent' \in {"SelectNoFile", "SelectFile", "FileRead",
                           "FileReadFailed"} =>
          UNCHANGED <<markdownInput, summary, instructions>>]_vars

\* A file was read while a request was being processed.
C13_Witness ==
  /\ controlEvent = "FileRead"
  /\ markdown = JSString(<<"c">>)
  /\ fileInput = <<>>
  /\ isProcessing

\* From the start of onSendToLLM until it settles: isProcessing is true, the
\* button is disabled and Enter does nothing, and one call is in flight.
OneRequestInFlight ==
  /\ llm.inFlight <= 1
  /\ llm.inFlight = (IF llm.pc = "idle" THEN 0 ELSE 1)
  /\ llm.pc /= "idle" =>
       /\ isProcessing
       /\ SendDisabled(isProcessing)
       /\ ~EnterSends(isProcessing)
  /\ llm.pc = "idle" => ~isProcessing

\* C28: at most one LLM request is in flight: from the start of onSendToLLM
\* until it settles isProcessing is true and the send button and the Enter
\* key are dead; and every started request returns isProcessing to false,
\* provided the capture and the network call settle.
C28_OneRequestThenIdle ==
  /\ []OneRequestInFlight
  /\ isProcessing ~> ~isProcessing

\* A request is waiting for the network with the controls disabled.
C28_Witness ==
  /\ llm.pc = "request"
  /\ llm.inFlight = 1
  /\ isProcessing
  /\ SendDisabled(isProcessing)

RECURSIVE PartPairs(_)
\* The lines of the parts in order, each with its part.
PartPairs(parts) ==
  IF parts = <<>>
  THEN <<>>
  ELSE LET ls == PartLines(Head(parts))
       IN  [i \in 1..Len(ls) |-> <<Head(parts), ls[i]>>] \o PartPairs(Tail(parts))

RECURSIVE RowsOf(_, _, _)
RowsOf(pairs, old, new) ==
  IF pairs = <<>>
  THEN <<>>
  ELSE LET part == Head(pairs)[1]
       IN  <<MakeRow(part, Head(pairs)[2], old, new)>>
           \o RowsOf(Tail(pairs), NextOldIdx(part, old), NextNewIdx(part, new))

\* getDiffRows as a function of lineDiff.
getDiffRows(parts) == RowsOf(PartPairs(parts), 1, 1)

\* What the Diff tab shows for the App's state: DiffViewer rendered with
\* oldContent={markdownInput || ''} and newContent={markdown || ''}.
DiffTabRows ==
  getDiffRows(diffLines(OldContentProp(markdownInput).val,
                        NewContentProp(markdown).val))

\* The stepwise computation of the rows agrees with getDiffRows.
RowsAsComputed == Done => rendered = getDiffRows(lineDiff)

\* Every line of the current document is shown as an added row.
AllLinesAdded ==
  LET rs == DiffTabRows
      ls == TextLines(markdown.val)
  IN  /\ Len(rs) = Len(ls)
      /\ \A i \in 1..Len(rs) :
           rs[i] = [oldIdx |-> None, newIdx |-> i, kind |-> "add", text |-> ls[i]]

\* The same for every text the diff view is rendered with.
EmptyBaselineAllAdded == markdownInput = JSString(<<>>) => AllLinesAdded

\* markdownInput changes only when a request succeeds, to the markdown that
\* was sent.
BaselineFrame ==
  /\ markdownInput' /= markdownInput => controlEvent' = "SendSucceeded"
  /\ controlEvent' = "SendSucceeded" => markdownInput' = llm.markdown

\* C30: markdownInput is the empty string initially and changes only when an
\* LLM request succeeds, to the markdown that was sent; editor edits, file
\* uploads and failed requests leave it unchanged.  While it is empty, as it
\* is before the first successful request, every line of the current
\* document is shown as added.
C30_DiffBaseline ==
  /\ markdownInput = JSString(<<>>)
  /\ [][BaselineFrame]_vars
  /\ [](markdownInput = JSString(<<>>) => AllLinesAdded)

\* No request has succeeded yet, one has failed, and the two lines of the
\* document are two added rows.
C30_Witness ==
  /\ controlEvent = "SendFailed"
  /\ markdownInput = JSString(<<>>)
  /\ markdown = JSString(<<"b", LF, "c">>)
  /\ Len(DiffTabRows) = 2
  /\ DiffTabRows[2].kind = "add"

\* After a successful request the Diff tab compares with the text sent.
C30_WitnessSent ==
  /\ controlEvent = "EditorChange"
  /\ markdownInput = JSString(<<"b", LF, "c">>)
  /\ markdown = JSString(<<"a">>)
  /\ Len(DiffTabRows) = 3

(***************************************************************************)
(* linkCredentials(user, credential, error).  link holds one call: its     *)
(* arguments, the calls it made to linkWithCredential and to the error     *)
(* handler, the toasts it showed and how its promise settled.  n counts    *)
(* the calls made so far.                                                  *)
(***************************************************************************)

Users == {"null", "undefined", "user1", "user2"}
Credentials == {"null", "undefined", "credential1", "credential2"}
LinkErrors == {"error1", "error2"}

\* null and undefined are the falsy values an argument can take here.
Truthy(v) == v \notin {"null", "undefined"}

LinkedToast == [kind |-> "success", message |-> "Accounts linked successfully"]
NoCredentialsToast ==
  [kind |-> "error", message |-> "No user credentials to link"]

LinkCalls ==
  {[NoLink EXCEPT !.pc = "called", !.n = 1, !.user = u, !.credential = c] :
     u \in Users, c \in Credentials}

LinkInit ==
  /\ markdown = JSString(<<>>)
  /\ markdownInput = JSString(<<>>)
  /\ DiffAtRest
  /\ ControlAtRest
  /\ link \in LinkCalls
  /\ CaptureAtRest
  /\ PanelAtRest
  /\ ProviderAtRest
  /\ UserAuthAtRest
  /\ ThemeAtRest

HasEither(user, credential) == Truthy(user) \/ Truthy(credential)

\* user && credential
HasBoth(user, credential) == Truthy(user) /\ Truthy(credential)

\* The call up to await linkWithCredential(user, credential), or through the
\* else branch to its end.
LinkStart ==
  /\ link.pc = "called"
  /\ IF HasBoth(link.user, link.credential)
     THEN link' = [link EXCEPT
                     !.pc = "linking",
                     !.linkCalls = Append(@, <<link.user, link.credential>>)]
     ELSE link' = [link EXCEPT
                     !.pc = "resolved",
                     !.toasts = Append(@, NoCredentialsToast)]
  /\ UNCHANGED nonLinkVars

\* linkWithCredential resolved.
LinkResolved ==
  /\ link.pc = "linking"
  /\ link' = [link EXCEPT !.pc = "resolved", !.toasts = Append(@, LinkedToast)]
  /\ UNCHANGED nonLinkVars

\* linkWithCredential rejected with err: the catch block up to await
\* error(err).
LinkRejected ==
  \E err \in LinkErrors :
    /\ link.pc = "linking"
    /\ link' = [link EXCEPT !.pc = "handling",
                            !.thrown = err,
                            !.errorCalls = Append(@, err)]
    /\ UNCHANGED nonLinkVars

\* The error handler's promise resolved.
HandlerResolved ==
  /\ link.pc = "handling"
  /\ link' = [link EXCEPT !.pc = "resolved", !.handler = "resolved"]
  /\ UNCHANGED nonLinkVars

\* The error handler's promise rejected, and the call's with it.
HandlerRejected ==
  /\ link.pc = "handling"
  /\ link' = [link EXCEPT !.pc = "rejected", !.handler = "rejected"]
  /\ UNCHANGED nonLinkVars

\* The next call, with arguments of its own.
LinkAgain ==
  \E u \in Users, c \in Credentials :
    /\ link.pc \in {"resolved", "rejected"}
    /\ link.n < MaxCalls
    /\ link' = [NoLink EXCEPT !.pc = "called", !.n = link.n + 1,
                              !.user = u, !.credential = c]
    /\ UNCHANGED nonLinkVars

LinkNext ==
  \/ LinkStart
  \/ LinkResolved
  \/ LinkRejected
  \/ HandlerResolved
  \/ HandlerRejected
  \/ LinkAgain

SpecLink == LinkInit /\ [][LinkNext]_vars

LinkSettled == link.pc \in {"resolved", "rejected"}

LinkMissing ==
  link.user \in {"null", "undefined"} \/ link.credential \in {"null", "undefined"}

\* C14: with user or credential null or undefined, linkCredentials calls
\* neither linkWithCredential nor the error handler and shows 'No user
\* credentials to link'; with both present it calls linkWithCredential(user,
\* credential) exactly once and then either shows the success toast and does
\* not call the handler, or calls the handler exactly once with the thrown
\* error and shows no success toast; its promise rejects only if the handler
\* rejected.
C14_LinkCredentialsContract ==
  /\ link.pc /= "idle" /\ LinkMissing =>
       /\ link.linkCalls = <<>>
       /\ link.errorCalls = <<>>
       /\ LinkSettled => link.toasts = <<NoCredentialsToast>>
       /\ link.pc \in {"called", "resolved"}
  /\ LinkSettled /\ ~LinkMissing =>
       /\ link.linkCalls = << <<link.user, link.credential>> >>
       /\ \/ link.toasts = <<LinkedToast>> /\ link.errorCalls = <<>>
          \/ /\ link.errorCalls = <<link.thrown>>
             /\ link.thrown \in LinkErrors
             /\ link.toasts = <<>>
  /\ link.pc = "rejected" => link.handler = "rejected"

\* A second call whose linkWithCredential rejected and whose handler
\* resolved.
C14_Witness ==
  /\ link.pc = "resolved"
  /\ link.n = 2
  /\ link.user = "user1"
  /\ link.credential = "credential2"
  /\ link.errorCalls = <<"error1">>
  /\ link.handler = "resolved"

(***************************************************************************)
(* captureMarkdownPreview(previewRef).  Calls may overlap; call i owns     *)
(* clone i, and capture.body is the set of clones that are children of     *)
(* document.body.                                                          *)
(***************************************************************************)

\* Values of previewRef.current.
PreviewRefs == {"null", "undefined", "node"}

CaptureInit ==
  /\ markdown = JSString(<<>>)
  /\ markdownInput = JSString(<<>>)
  /\ DiffAtRest
  /\ ControlAtRest
  /\ LinkAtRest
  /\ CaptureAtRest
  /\ PanelAtRest
  /\ ProviderAtRest
  /\ UserAuthAtRest
  /\ ThemeAtRest

CallSet(i, call) == [capture EXCEPT !.calls[i] = call]

\* The finally block: document.body.removeChild(clone).
Finally(i, call) ==
  [calls |-> [capture.calls EXCEPT ![i] = [call EXCEPT !.removed = @ + 1]],
   body |-> capture.body \ {i}]

\* previewRef.current is null or undefined: return.
CaptureNothing ==
  \E i \in 1..MaxCalls, ref \in PreviewRefs :
    /\ capture.calls[i].pc = "idle"
    /\ ~Truthy(ref)
    /\ capture' = CallSet(i, [capture.calls[i] EXCEPT
                                !.pc = "resolved", !.ref = ref,
                                !.result = "undefined"])
    /\ UNCHANGED nonCaptureVars

\* The call up to await Promise.all(...): the clone is appended and styled;
\* pending of its images are not complete yet.
CaptureStart ==
  \E i \in 1..MaxCalls, ref \in PreviewRefs, pending \in 0..MaxImages :
    /\ capture.calls[i].pc = "idle"
    /\ Truthy(ref)
    /\ capture' =
         [calls |-> [capture.calls EXCEPT ![i] =
                       [@ EXCEPT !.pc = "images", !.ref = ref,
                                 !.imagesPending = pending,
                                 !.appended = @ + 1]],
          body |-> capture.body \cup {i}]
    /\ UNCHANGED nonCaptureVars

\* An image that was not complete fires load or error.
ImageSettled ==
  \E i \in 1..MaxCalls :
    /\ capture.calls[i].pc = "images"
    /\ capture.calls[i].imagesPending > 0
    /\ capture' = CallSet(i, [capture.calls[i] EXCEPT !.imagesPending = @ - 1])
    /\ UNCHANGED nonCaptureVars

\* Promise.all resolved: the height is set and html2canvas is called.
ImagesReady ==
  \E i \in 1..MaxCalls :
    /\ capture.calls[i].pc = "images"
    /\ capture.calls[i].imagesPending = 0
    /\ capture' = CallSet(i, [capture.calls[i] EXCEPT !.pc = "canvas"])
    /\ UNCHANGED nonCaptureVars

\* Something between the try and html2canvas throws.
ImagesFailed ==
  \E i \in 1..MaxCalls :
    /\ capture.calls[i].pc = "images"
    /\ capture' = Finally(i, [capture.calls[i] EXCEPT
                                !.pc = "rejected", !.result = "error"])
    /\ UNCHANGED nonCaptureVars

\* html2canvas resolved: toDataURL, then finally.
CanvasRendered ==
  \E i \in 1..MaxCalls :
    /\ capture.calls[i].pc = "canvas"
    /\ capture' = Finally(i, [capture.calls[i] EXCEPT
                                !.pc = "resolved", !.result = "dataURL"])
    /\ UNCHANGED nonCaptureVars

CanvasFailedLeavesClone ==
  \E i \in 1..MaxCalls :
    /\ capture.calls[i].pc = "canvas"
    /\ capture' = CallSet(i, [capture.calls[i] EXCEPT
                                !.pc = "rejected", !.result = "error"])
    /\ UNCHANGED nonCaptureVars

\* html2canvas rejected or toDataURL threw: finally.
CanvasFailed ==
  \E i \in 1..MaxCalls :
    /\ capture.calls[i].pc = "canvas"
    /\ capture' = Finally(i, [capture.calls[i] EXCEPT
                                !.pc = "rejected", !.result = "error"])
    /\ UNCHANGED nonCaptureVars

CaptureNext ==
  \/ CaptureNothing
  \/ CaptureStart
  \/ ImageSettled
  \/ ImagesReady
  \/ ImagesFailed
  \/ CanvasRendered
  \/ CanvasFailed

SpecCapture == CaptureInit /\ [][CaptureNext]_vars

CaptureSettled(i) == capture.calls[i].pc \in {"resolved", "rejected"}

\* C15: with previewRef.current null the call returns undefined and neither
\* clones nor touches the document; otherwise its clone is out of
\* document.body again when the call settles, also when the wait for images
\* or the canvas rendering fails, so no clone is left after any call.
C15_CloneRemovedWhenSettled ==
  /\ \A i \in 1..MaxCalls :
       /\ CaptureSettled(i) /\ capture.calls[i].ref \in {"null", "undefined"} =>
            /\ capture.calls[i].pc = "resolved"
            /\ capture.calls[i].result = "undefined"
            /\ capture.calls[i].appended = 0
            /\ capture.calls[i].removed = 0
       /\ CaptureSettled(i) /\ capture.calls[i].ref = "node" =>
            /\ capture.calls[i].appended = 1
            /\ capture.calls[i].removed = 1
       /\ CaptureSettled(i) => i \notin capture.body
  /\ capture.body = {i \in 1..MaxCalls : capture.calls[i].pc \in {"images", "canvas"}}

\* One call was rejected by the canvas rendering while another still waits
\* for an image: only the waiting call's clone is in the document.
C15_Witness ==
  /\ capture.calls[1].pc = "rejected"
  /\ capture.calls[1].ref = "node"
  /\ capture.calls[1].removed = 1
  /\ capture.calls[2].pc = "images"
  /\ capture.calls[2].imagesPending = 1
  /\ capture.body = {2}

(***************************************************************************)
(* UserPanel.  panel.ctx is the value useAuth returns and panel.userPanel  *)
(* the prop; panel.dom is what the component returned when it last         *)
(* rendered, and it renders again after every change of its state, its     *)
(* prop or the context.  A button can be clicked when it is in the         *)
(* rendered panel and not disabled.                                        *)
(***************************************************************************)

Contexts ==
  [user : {"null", "user1"}, loading : BOOLEAN, subscribed : BOOLEAN,
   paymentEnabled : BOOLEAN, portalAccess : BOOLEAN]

\* What a rejection carries: its message and what String(e) gives.
Failures ==
  {[message |-> "denied", string |-> "Error: denied"],
   [message |-> "", string |-> "Error"]}

\* e.message || String(e)
ErrorText(e) == IF e.message /= "" THEN e.message ELSE e.string

\* Data of a checkout session snapshot: data?.error and data?.url.
SessionData == [error : {NoFailure} \cup Failures, url : BOOLEAN]

UpgradeDisabledIgnoresBusy(p) == ~p.ctx.paymentEnabled \/ p.ctx.subscribed

\* disabled={!paymentEnabled || subscribed || isCheckoutBusy}
UpgradeDisabled(p) ==
  ~p.ctx.paymentEnabled \/ p.ctx.subscribed \/ p.isCheckoutBusy

UpgradeLabel(p) ==
  IF ~p.ctx.paymentEnabled THEN "Payments disabled"
  ELSE IF p.ctx.subscribed THEN "Subscription active"
  ELSE IF p.isCheckoutBusy THEN "Preparing checkout..."
  ELSE "Upgrade to Pro"

\* disabled={!portalAccess || isPortalBusy}
BillingDisabled(p) == ~p.ctx.portalAccess \/ p.isPortalBusy

BillingLabel(p) ==
  IF ~p.ctx.portalAccess THEN "Billing portal disabled"
  ELSE IF p.isPortalBusy THEN "Opening portal..."
  ELSE "Manage billing"

\* The component's return value: null without a user, 'Loading...' while
\* loading, else userPanel && the dialog.
View(p) ==
  IF p.ctx.user = "null" THEN "nothing"
  ELSE IF p.ctx.loading THEN "loading"
  ELSE IF p.userPanel THEN "panel"
  ELSE "nothing"

Render(p) ==
  IF View(p) = "panel"
  THEN [view |-> "panel",
        upgradeDisabled |-> UpgradeDisabled(p),
        upgradeLabel |-> UpgradeLabel(p),
        billingDisabled |-> BillingDisabled(p),
        billingLabel |-> BillingLabel(p),
        alert |-> p.error]
  ELSE [NothingRendered EXCEPT !.view = View(p)]

Rendered(p) == [p EXCEPT !.dom = Render(p)]

PanelInit ==
  /\ markdown = JSString(<<>>)
  /\ markdownInput = JSString(<<>>)
  /\ DiffAtRest
  /\ ControlAtRest
  /\ LinkAtRest
  /\ CaptureAtRest
  /\ PanelAtRest
  /\ ProviderAtRest
  /\ UserAuthAtRest
  /\ ThemeAtRest

\* The provider hands down another value.
ContextChange ==
  \E c \in Contexts :
    /\ c /= panel.ctx
    /\ panel' = Rendered([panel EXCEPT !.ctx = c, !.event = "ContextChange"])
    /\ UNCHANGED nonPanelVars

\* UserCard's button, the dialog's close button or UserAuth set the prop.
SetUserPanel ==
  \E b \in BOOLEAN :
    /\ b /= panel.userPanel
    /\ panel' = Rendered([panel EXCEPT !.userPanel = b, !.event = "SetUserPanel"])
    /\ UNCHANGED nonPanelVars

\* A click on the upgrade button: startCheckout up to await addDoc.
ClickUpgrade ==
  /\ panel.dom.view = "panel"
  /\ ~panel.dom.upgradeDisabled
  /\ panel.checkout.inFlight < MaxCalls
  /\ panel' = Rendered([panel EXCEPT
                          !.error = "null",
                          !.isCheckoutBusy = TRUE,
                          !.checkout = [pc |-> "addDoc",
                                        inFlight |-> @.inFlight + 1,
                                        redirects |-> 0, unsubs |-> 0],
                          !.event = "ClickUpgrade"])
  /\ UNCHANGED nonPanelVars

\* addDoc resolved: onSnapshot listens to the session document.
SessionCreated ==
  /\ panel.checkout.pc = "addDoc"
  /\ panel' = Rendered([panel EXCEPT !.checkout.pc = "listening",
                                     !.event = "SessionCreated"])
  /\ UNCHANGED nonPanelVars

\* The catch block and finally of startCheckout.
CheckoutFailed(p, e, event) ==
  Rendered([p EXCEPT !.error = ErrorText(e),
                     !.isCheckoutBusy = FALSE,
                     !.checkout.pc = "idle",
                     !.checkout.inFlight = @ - 1,
                     !.failure = e,
                     !.event = event])

\* finally of startCheckout after the promise resolved.
CheckoutDone(p, event) ==
  Rendered([p EXCEPT !.isCheckoutBusy = FALSE,
                     !.checkout.pc = "idle",
                     !.checkout.inFlight = @ - 1,
                     !.event = event])

\* addDoc rejected.
SessionRefused ==
  \E e \in Failures :
    /\ panel.checkout.pc = "addDoc"
    /\ panel' = CheckoutFailed(panel, e, "SessionRefused")
    /\ UNCHANGED nonPanelVars

\* The listener's callback on a snapshot: unsub() for an error and again for
\* a url, location.assign for a url.  checkout.unsubs and checkout.redirects
\* count them for the checkout in progress.
SnapshotHandled(p, data) ==
  LET hasError == data.error /= NoFailure
  IN  [p EXCEPT !.checkout.unsubs =
                   @ + (IF hasError THEN 1 ELSE 0) + (IF data.url THEN 1 ELSE 0),
                !.checkout.redirects = @ + (IF data.url THEN 1 ELSE 0)]

\* A snapshot of the session document: an error rejects, a url redirects
\* and resolves, neither keeps listening.
SessionSnapshot ==
  \E data \in SessionData :
    /\ panel.checkout.pc = "listening"
    /\ panel' =
         LET p == SnapshotHandled(panel, data)
         IN  IF data.error /= NoFailure
             THEN CheckoutFailed(p, data.error,
                    IF data.url THEN "SessionErrorRedirect" ELSE "SessionError")
             ELSE IF data.url THEN CheckoutDone(p, "SessionRedirect")
             ELSE [p EXCEPT !.event = "SessionWaiting"]
    /\ UNCHANGED nonPanelVars

\* The snapshot listener's error callback: reject.
SessionListenerError ==
  \E e \in Failures :
    /\ panel.checkout.pc = "listening"
    /\ panel' = CheckoutFailed(panel, e, "SessionListenerError")
    /\ UNCHANGED nonPanelVars

\* A click on the billing button: openBillingPortal up to await
\* createPortalLink.
ClickBilling ==
  /\ panel.dom.view = "panel"
  /\ ~panel.dom.billingDisabled
  /\ panel.portal.inFlight < MaxCalls
  /\ panel' = Rendered([panel EXCEPT
                          !.error = "null",
                          !.isPortalBusy = TRUE,
                          !.portal = [pc |-> "calling", inFlight |-> @.inFlight + 1],
                          !.event = "ClickBilling"])
  /\ UNCHANGED nonPanelVars

\* createPortalLink resolved: location.assign(data.url), then finally.
PortalOpened ==
  /\ panel.portal.pc = "calling"
  /\ panel' = Rendered([panel EXCEPT
                          !.isPortalBusy = FALSE,
                          !.portal = [pc |-> "idle", inFlight |-> @.inFlight - 1],
                          !.event = "PortalOpened"])
  /\ UNCHANGED nonPanelVars

PortalFailedStaysBusy ==
  \E e \in Failures :
    /\ panel.portal.pc = "calling"
    /\ panel' = Rendered([panel EXCEPT
                            !.error = ErrorText(e),
                            !.portal = [pc |-> "idle", inFlight |-> @.inFlight - 1],
                            !.failure = e,
                            !.event = "PortalFailed"])
    /\ UNCHANGED nonPanelVars

\* createPortalLink rejected: the catch block, then finally.
PortalFailed ==
  \E e \in Failures :
    /\ panel.portal.pc = "calling"
    /\ panel' = Rendered([panel EXCEPT
                            !.error = ErrorText(e),
                            !.isPortalBusy = FALSE,
                            !.portal = [pc |-> "idle", inFlight |-> @.inFlight - 1],
                            !.failure = e,
                            !.event = "PortalFailed"])
    /\ UNCHANGED nonPanelVars

PanelNext ==
  \/ ContextChange
  \/ SetUserPanel
  \/ ClickUpgrade
  \/ SessionCreated
  \/ SessionRefused
  \/ SessionSnapshot
  \/ SessionListenerError
  \/ ClickBilling
  \/ PortalOpened
  \/ PortalFailed

SpecPanel == PanelInit /\ [][PanelNext]_vars

\* C16: a checkout is never started while payments are disabled, while the
\* user is subscribed or while a previous checkout is in progress
\* (isCheckoutBusy); in each of these states the upgrade button is disabled,
\* and its label is chosen in the order payments disabled, subscription
\* active, preparing checkout, 'Upgrade to Pro'.
C16_CheckoutGuard ==
  /\ panel.event = "ClickUpgrade" =>
       panel.ctx.paymentEnabled /\ ~panel.ctx.subscribed
  /\ panel.checkout.inFlight <= 1
  /\ panel.isCheckoutBusy <=> panel.checkout.inFlight = 1
  /\ panel.dom.view = "panel" =>
       /\ ~panel.ctx.paymentEnabled \/ panel.ctx.subscribed \/ panel.isCheckoutBusy
            => panel.dom.upgradeDisabled
       /\ ~panel.ctx.paymentEnabled =>
            panel.dom.upgradeLabel = "Payments disabled"
       /\ panel.ctx.paymentEnabled /\ panel.ctx.subscribed =>
            panel.dom.upgradeLabel = "Subscription active"
       /\ panel.ctx.paymentEnabled /\ ~panel.ctx.subscribed /\ panel.isCheckoutBusy =>
            panel.dom.upgradeLabel = "Preparing checkout..."
       /\ panel.ctx.paymentEnabled /\ ~panel.ctx.subscribed /\ ~panel.isCheckoutBusy =>
            panel.dom.upgradeLabel = "Upgrade to Pro"

\* The upgrade button was clicked and is now disabled with the label of a
\* checkout in preparation.
C16_Witness ==
  /\ panel.event = "ClickUpgrade"
  /\ panel.dom.view = "panel"
  /\ panel.dom.upgradeDisabled
  /\ panel.dom.upgradeLabel = "Preparing checkout..."
  /\ panel.checkout.inFlight = 1

\* A session snapshot that carried an error was handled.
SessionErrorHandled ==
  panel.event \in {"SessionError", "SessionErrorRedirect"}

\* An error snapshot ends the checkout with the error text and the button
\* free again.
SessionErrorReported ==
  SessionErrorHandled =>
    /\ panel.error = ErrorText(panel.failure)
    /\ ~panel.isCheckoutBusy
    /\ panel.checkout.pc = "idle"

\* At most one redirect per checkout, and a snapshot with neither url nor
\* error leaves the checkout waiting.
SessionRedirectOnce ==
  /\ panel.checkout.redirects <= 1
  /\ panel.event = "SessionRedirect" => panel.checkout.redirects = 1
  /\ panel.event = "SessionWaiting" =>
       /\ panel.isCheckoutBusy
       /\ panel.checkout.pc = "listening"
       /\ panel.checkout.redirects = 0
       /\ panel.checkout.unsubs = 0

\* A snapshot with an error and no url: no redirect, one unsub().
SessionErrorAloneNoRedirect ==
  panel.event = "SessionError" =>
    panel.checkout.redirects = 0 /\ panel.checkout.unsubs = 1

\* C26: a checkout that receives a session snapshot carrying an error never
\* redirects: the listener is unsubscribed exactly once, the error text is
\* shown and isCheckoutBusy is false again.  A redirect happens at most once
\* per checkout and only for a snapshot with a url; a snapshot with neither
\* url nor error leaves the checkout waiting with isCheckoutBusy true.
C26_ErrorSnapshotNoRedirect ==
  /\ SessionErrorHandled =>
       panel.checkout.redirects = 0 /\ panel.checkout.unsubs = 1
  /\ SessionErrorReported
  /\ SessionRedirectOnce

\* C17: openBillingPortal is never invoked while portalAccess is false or
\* while a previous portal request is in progress (isPortalBusy), the billing
\* button being disabled in both states; after every portal request
\* isPortalBusy is false again, and a failed one leaves its message in the
\* error display.
C17_PortalGuard ==
  /\ panel.event = "ClickBilling" => panel.ctx.portalAccess
  /\ panel.portal.inFlight <= 1
  /\ panel.isPortalBusy <=> panel.portal.inFlight = 1
  /\ panel.dom.view = "panel" /\ (~panel.ctx.portalAccess \/ panel.isPortalBusy) =>
       panel.dom.billingDisabled
  /\ panel.event \in {"PortalOpened", "PortalFailed"} => ~panel.isPortalBusy
  /\ panel.event = "PortalFailed" =>
       /\ panel.error \notin {"null", ""}
       /\ panel.failure.message /= "" => panel.error = panel.failure.message
       /\ panel.dom.view = "panel" => panel.dom.alert = panel.error

\* A portal request failed while a checkout was in progress; its message is
\* in the alert and the billing button can be used again.
C17_Witness ==
  /\ panel.event = "PortalFailed"
  /\ panel.dom.view = "panel"
  /\ panel.dom.alert = "denied"
  /\ ~panel.isPortalBusy
  /\ ~panel.dom.billingDisabled
  /\ panel.isCheckoutBusy

AuthUsers == {"null", "user1", "user2"}

\* snap.data()?.priceId of config/payments.
PriceIds == {"undefined", "price1"}

\* The enabled field of config/payments: missing, a boolean or a number.
EnabledValues == {"undefined", "true", "false", "1", "0"}

ProviderInit ==
  /\ markdown = JSString(<<>>)
  /\ markdownInput = JSString(<<>>)
  /\ DiffAtRest
  /\ ControlAtRest
  /\ LinkAtRest
  /\ CaptureAtRest
  /\ PanelAtRest
  /\ ProviderAtRest
  /\ UserAuthAtRest
  /\ ThemeAtRest

\* stop() of the listener registered for uid.
Stopped(subs, uid) == SelectSeq(subs, LAMBDA u : u /= uid)

SubscriptionEffectNoCleanup(subs, old, new) ==
  IF new = "null" THEN subs ELSE Append(subs, new)

\* The effect on [user]: the cleanup of its last run, then its body.
SubscriptionEffect(subs, old, new) ==
  LET cleaned == IF old = "null" THEN subs ELSE Stopped(subs, old)
  IN  IF new = "null" THEN cleaned ELSE Append(cleaned, new)

EffectsDue(p) ==
  \/ p.user /= p.effectUser
  \/ p.paymentEnabled /= p.effectPayment
  \/ p.subscribed /= p.effectSubscribed

\* The effects of the last render whose dependencies changed.
Flush(p) ==
  LET q == IF p.user = p.effectUser
           THEN p
           ELSE [p EXCEPT !.subscriptions =
                            SubscriptionEffect(@, p.effectUser, p.user),
                          !.effectUser = p.user]
      r == IF q.paymentEnabled = q.effectPayment
              /\ q.subscribed = q.effectSubscribed
           THEN q
           ELSE [q EXCEPT !.portalAccess = q.paymentEnabled \/ q.subscribed,
                          !.effectPayment = q.paymentEnabled,
                          !.effectSubscribed = q.subscribed]
  IN  [r EXCEPT !.pending = FALSE]

\* A render after a state change: the effects still pending run first, and
\* the new render's effects are pending if a dependency changed.
Rerendered(p) == [p EXCEPT !.pending = EffectsDue(p)]

\* The first render and its effects: the auth listener, no subscription
\* listener as user is null, the config listener, setPortalAccess(false).
Mount ==
  /\ provider.status = "idle"
  /\ provider' = [provider EXCEPT !.status = "mounted",
                                  !.authListener = "active",
                                  !.authRegistered = @ + 1,
                                  !.configListener = "active",
                                  !.configRegistered = @ + 1]
  /\ UNCHANGED nonProviderVars

\* The onAuthStateChanged callback.
AuthStateChanged ==
  \E u \in AuthUsers :
    /\ provider.authListener = "active"
    /\ provider' =
         LET p == Flush(provider)
         IN  Rerendered([p EXCEPT !.user = u,
                                  !.loading = FALSE,
                                  !.subscribed = IF u = "null" THEN FALSE ELSE @])
    /\ UNCHANGED nonProviderVars

\* The callback of a live subscriptions listener.
SubscriptionSnapshot ==
  \E empty \in BOOLEAN :
    /\ provider.subscriptions /= <<>>
    /\ provider' =
         LET p == Flush(provider)
         IN  Rerendered([p EXCEPT !.subscribed = ~empty])
    /\ UNCHANGED nonProviderVars

BooleanOnlyTrue(v) == v = "true"

\* Boolean(v)
Boolean(v) == v \notin {"undefined", "false", "0"}

\* The callback of the config/payments listener.
ConfigSnapshot ==
  \E enabled \in EnabledValues \cup {"nodoc"}, price \in PriceIds :
    /\ provider.configListener = "active"
    /\ enabled = "nodoc" => price = "undefined"
    /\ provider' =
         LET p == Flush(provider)
             field == IF enabled = "nodoc" THEN "undefined" ELSE enabled
         IN  Rerendered([p EXCEPT !.paymentEnabled = Boolean(field),
                                  !.priceId = price,
                                  !.config = enabled])
    /\ UNCHANGED nonProviderVars

\* The pending effects run.
RunEffects ==
  /\ provider.status = "mounted"
  /\ provider.pending
  /\ provider' = Flush(provider)
  /\ UNCHANGED nonProviderVars

\* Unmount: pending effects run, then every effect's cleanup.
Unmount ==
  /\ provider.status = "mounted"
  /\ provider' =
       LET p == Flush(provider)
       IN  [p EXCEPT !.status = "unmounted",
                     !.authListener = "stopped",
                     !.configListener = "stopped",
                     !.subscriptions = IF p.effectUser = "null"
                                       THEN @
                                       ELSE Stopped(@, p.effectUser)]
  /\ UNCHANGED nonProviderVars

ProviderNext ==
  \/ Mount
  \/ AuthStateChanged
  \/ SubscriptionSnapshot
  \/ ConfigSnapshot
  \/ RunEffects
  \/ Unmount

SpecProvider == ProviderInit /\ [][ProviderNext]_vars

\* C19: the auth-state listener and the config/payments listener are
\* registered once, on mount; a subscriptions listener is registered only
\* for a non-null user and is stopped when user changes or becomes null,
\* before another is registered; after unmount every listener is stopped; so
\* at most one subscriptions listener is live at any time and none after
\* unmount.
C19_ListenerLifecycle ==
  /\ provider.authRegistered = IF provider.status = "idle" THEN 0 ELSE 1
  /\ provider.configRegistered = IF provider.status = "idle" THEN 0 ELSE 1
  /\ provider.status = "mounted" =>
       provider.authListener = "active" /\ provider.configListener = "active"
  /\ Len(provider.subscriptions) <= 1
  /\ provider.subscriptions /= <<>> =>
       /\ provider.effectUser /= "null"
       /\ provider.subscriptions = <<provider.effectUser>>
  /\ provider.status = "mounted" /\ ~provider.pending =>
       provider.subscriptions =
         IF provider.user = "null" THEN <<>> ELSE <<provider.user>>
  /\ provider.status = "unmounted" =>
       /\ provider.authListener = "stopped"
       /\ provider.configListener = "stopped"
       /\ provider.subscriptions = <<>>

\* The provider was unmounted while user2 was signed in and subscribed: no
\* listener is left.
C19_Witness ==
  /\ provider.status = "unmounted"
  /\ provider.user = "user2"
  /\ provider.effectUser = "user2"
  /\ provider.subscribed
  /\ provider.subscriptions = <<>>

\* The effects of the last render have run.
ProviderSettled == provider.status = "mounted" /\ ~provider.pending

\* C24: once effects have settled, portalAccess equals (paymentEnabled OR
\* subscribed); paymentEnabled is the boolean coercion of the enabled field
\* of the last config snapshot, false when the document or the field is
\* missing.
C24_PortalAccess ==
  /\ ProviderSettled =>
       provider.portalAccess = (provider.paymentEnabled \/ provider.subscribed)
  /\ provider.config \in {"nodoc", "undefined", "false", "0"} =>
       ~provider.paymentEnabled
  /\ provider.config \in {"true", "1"} => provider.paymentEnabled

\* A subscriber keeps portal access while payments are disabled.
C24_Witness ==
  /\ ProviderSettled
  /\ provider.config = "false"
  /\ provider.subscribed
  /\ ~provider.paymentEnabled
  /\ provider.portalAccess

\* Payments enabled by a truthy number, nobody subscribed.
C24_WitnessCoerced ==
  /\ ProviderSettled
  /\ provider.config = "1"
  /\ ~provider.subscribed
  /\ provider.portalAccess

\* Whenever user is non-null loading is false, and loading never returns to
\* true.
LoadingOnlyBeforeAuth ==
  /\ provider.user /= "null" => ~provider.loading
  /\ provider.authRegistered = 0 => provider.loading

\* C29: while the user reported by the auth listener is null, subscribed is
\* false, whatever the order of a snapshot of the previous user's
\* subscriptions and the effect clean-up; whenever user is non-null, loading
\* is false.
C29_SignedOutNotSubscribed ==
  /\ provider.user = "null" => ~provider.subscribed
  /\ LoadingOnlyBeforeAuth

(***************************************************************************)
(* UserAuth.  userAuth holds the component's state, the user of the auth   *)
(* context and the one sign-in that can be in flight.  onSignIn reads      *)
(* credential from the render in which the clicked button was created:     *)
(* userAuth.signIn.credential.  The effect on [credential] is taken with   *)
(* the step that changes credential.                                       *)
(***************************************************************************)

Providers == {"google", "github"}

PendingCredentials == {"credential1", "credential2"}

\* What signInWithPopup or linkWithCredential rejects with: err.code,
\* err.customData.email, and the credential and providerId that
\* GithubAuthProvider.credentialFromError(err) gives.
SignInErrors ==
  [code : {"EXISTING_ACCOUNT"}, email : BOOLEAN,
   pending : {"null"} \cup PendingCredentials,
   providerId : {"github.com", "google.com"}]
  \cup
  [code : {"EMAIL_IN_USE", "POPUP_CLOSED", "POPUP_BLOCKED", "other"},
   email : {FALSE}, pending : {"null"}, providerId : {"github.com"}]

UserAuthInit ==
  /\ markdown = JSString(<<>>)
  /\ markdownInput = JSString(<<>>)
  /\ DiffAtRest
  /\ ControlAtRest
  /\ LinkAtRest
  /\ CaptureAtRest
  /\ PanelAtRest
  /\ ProviderAtRest
  /\ UserAuthAtRest
  /\ ThemeAtRest

\* The sign-in interface is rendered only without a user.
SignedOut == userAuth.user = "null"

\* email && pendingCredential?.providerId === 'github.com'
Linkable(err) ==
  err.email /\ err.pending /= "null" /\ err.providerId = "github.com"

\* The toast of each branch of handleSignInError's switch but the first.
SignInErrorToast(code) ==
  CASE code = "EMAIL_IN_USE" ->
         "Account linking failed due to an email mismatch"
    [] code = "POPUP_CLOSED" -> "Popup was closed by the user"
    [] code = "POPUP_BLOCKED" -> "Popup was blocked by the browser"
    [] OTHER -> "Error signing in: " \o code

\* handleSignInError, with the effect that opens the modal when credential
\* has become truthy.
HandleSignInError(u, err) ==
  IF err.code = "EXISTING_ACCOUNT"
  THEN IF Linkable(err)
       THEN [u EXCEPT !.credential = err.pending,
                      !.accountLinkingModal = IF err.pending /= u.credential
                                              THEN TRUE ELSE @,
                      !.discarded = FALSE]
       ELSE u
  ELSE [u EXCEPT !.signIn.toasts = Append(@, SignInErrorToast(err.code))]

\* The end of the try block and finally.
SignedIn(u) ==
  [u EXCEPT !.credential = "null",
            !.accountLinkingModal = FALSE,
            !.signingIn = FALSE,
            !.userPanel = FALSE,
            !.signIn.pc = "idle",
            !.event = "SignedIn"]

\* UserCard's button.
ToggleUserPanel ==
  /\ ~SignedOut
  /\ userAuth' = [userAuth EXCEPT !.userPanel = ~@, !.event = "ToggleUserPanel"]
  /\ UNCHANGED nonUserAuthVars

\* The trigger: disabled={signingIn || accountLinkingModal}
TriggerDisabled(u) == u.signingIn \/ u.accountLinkingModal

\* {signingIn ? 'Signing in...' : 'Sign In'}
TriggerLabel(u) == IF u.signingIn THEN "Signing in..." ELSE "Sign In"

ProviderNeverDisabled(u) == FALSE

\* The Google and GitHub buttons: disabled={signingIn}
ProviderDisabled(u) == u.signingIn

\* The sign-in trigger.
ToggleDropdown ==
  /\ SignedOut
  /\ ~TriggerDisabled(userAuth)
  /\ userAuth' = [userAuth EXCEPT !.signInDropdownOpen = ~@,
                                  !.event = "ToggleDropdown"]
  /\ UNCHANGED nonUserAuthVars

\* The credential onSignIn sees: that of the render which made the button.
CredentialOfRender(u) == u.signIn.credential

\* A click on a provider button of the dropdown or on the modal's Google
\* button: onSignIn up to await signInWithPopup.
SignInClicked ==
  \E with \in Providers :
    /\ SignedOut
    /\ ~ProviderDisabled(userAuth)
    /\ userAuth.popups < MaxCalls
    /\ \/ userAuth.signInDropdownOpen
       \/ userAuth.accountLinkingModal /\ with = "google"
    /\ userAuth' = [userAuth EXCEPT
                      !.signingIn = TRUE,
                      !.popups = @ + 1,
                      !.signInDropdownOpen = FALSE,
                      !.signIn = [NoSignIn EXCEPT
                                    !.pc = "popup",
                                    !.provider = with,
                                    !.credential = userAuth.credential],
                      !.event = "SignInClicked"]
    /\ UNCHANGED nonUserAuthVars

\* signInWithPopup resolved: the user is signed in; with a credential,
\* linkCredentials(auth.currentUser, credential, handleSignInError) is
\* awaited, without one the handler finishes.
PopupSucceeded ==
  \E account \in {"user1", "user2"} :
    /\ userAuth.signIn.pc = "popup"
    /\ LET u == [userAuth EXCEPT !.user = account,
                                 !.popups = @ - 1,
                                 !.signIn.account = account,
                                 !.signIn.toasts =
                                   Append(@, "Signed in successfully"),
                                 !.signIn.stored = userAuth.credential,
                                 !.signIn.discarded = userAuth.discarded]
       IN  userAuth' =
             IF CredentialOfRender(u) /= "null"
             THEN [u EXCEPT !.signIn.pc = "linking",
                            !.signIn.linkCalls =
                              Append(@, <<account, CredentialOfRender(u)>>),
                            !.event = "Linking"]
             ELSE SignedIn(u)
    /\ UNCHANGED nonUserAuthVars

\* linkWithCredential resolved inside linkCredentials.
Linked ==
  /\ userAuth.signIn.pc = "linking"
  /\ userAuth' = SignedIn([userAuth EXCEPT
                             !.signIn.toasts =
                               Append(@, "Accounts linked successfully")])
  /\ UNCHANGED nonUserAuthVars

\* linkWithCredential rejected: linkCredentials awaits handleSignInError and
\* resolves.
LinkingFailed ==
  \E err \in SignInErrors :
    /\ userAuth.signIn.pc = "linking"
    /\ userAuth' = SignedIn([HandleSignInError(userAuth, err) EXCEPT
                               !.signIn.error = err.code])
    /\ UNCHANGED nonUserAuthVars

\* signInWithPopup rejected: the catch block and finally.
PopupFailed ==
  \E err \in SignInErrors :
    /\ userAuth.signIn.pc = "popup"
    /\ userAuth' = [HandleSignInError(userAuth, err) EXCEPT
                      !.signingIn = FALSE,
                      !.userPanel = FALSE,
                      !.popups = @ - 1,
                      !.signIn.pc = "idle",
                      !.signIn.error = err.code,
                      !.signIn.pending =
                        IF err.code = "EXISTING_ACCOUNT" /\ Linkable(err)
                        THEN err.pending ELSE "null",
                      !.event = "PopupFailed"]
    /\ UNCHANGED nonUserAuthVars

\* The modal's close button.
CloseModal ==
  /\ SignedOut
  /\ userAuth.accountLinkingModal
  /\ userAuth' = [userAuth EXCEPT !.accountLinkingModal = FALSE,
                                  !.credential = "null",
                                  !.discarded = TRUE,
                                  !.event = "CloseModal"]
  /\ UNCHANGED nonUserAuthVars

\* UserPanel's sign-out button.
SignOut ==
  /\ ~SignedOut
  /\ userAuth' = [userAuth EXCEPT !.user = "null", !.event = "SignOut"]
  /\ UNCHANGED nonUserAuthVars

UserAuthNext ==
  \/ ToggleUserPanel
  \/ ToggleDropdown
  \/ SignInClicked
  \/ PopupSucceeded
  \/ Linked
  \/ LinkingFailed
  \/ PopupFailed
  \/ CloseModal
  \/ SignOut

SpecUserAuth == UserAuthInit /\ [][UserAuthNext]_vars

\* The sign-in failed with an existing-account error that carried an email
\* and a pending GitHub credential.
FailedLinkable ==
  /\ userAuth.event = "PopupFailed"
  /\ userAuth.signIn.error = "EXISTING_ACCOUNT"
  /\ userAuth.signIn.pending /= "null"

\* A failure of that kind stores the credential and opens the modal.
StoresCredential ==
  FailedLinkable =>
    /\ userAuth.credential = userAuth.signIn.pending
    /\ userAuth.accountLinkingModal

\* A sign-in that succeeds while a credential is stored links it, once, to
\* the signed-in user, and leaves no credential and no modal.
LinksStoredCredential ==
  userAuth.event = "SignedIn" =>
    /\ userAuth.signIn.stored /= "null" =>
         userAuth.signIn.linkCalls =
           << <<userAuth.signIn.account, userAuth.signIn.stored>> >>
    /\ userAuth.credential = "null"
    /\ ~userAuth.accountLinkingModal

\* A sign-in that succeeds after the modal was closed, no credential having
\* been stored since, links nothing.
NoLinkingAfterClose ==
  userAuth.event = "SignedIn" /\ userAuth.signIn.discarded =>
    userAuth.signIn.linkCalls = <<>>

\* C20: a sign-in that fails with auth/account-exists-with-different-
\* credential, an email and a pending GitHub credential stores the
\* credential and opens the account-linking modal; the next successful
\* sign-in calls linkCredentials exactly once with auth.currentUser and the
\* stored credential and leaves the credential null and the modal closed;
\* closing the modal discards the credential, so a later successful sign-in
\* performs no linking.
C20_AccountLinkingFlow ==
  /\ StoresCredential
  /\ LinksStoredCredential
  /\ NoLinkingAfterClose

\* handleSignInError has just handled the rejection of signInWithPopup.
HandledSignInError == userAuth.event = "PopupFailed"

\* C21: every sign-in error handled by handleSignInError has a visible
\* outcome: email-already-in-use, popup-closed and popup-blocked show their
\* own notification, account-exists-with-different-credential opens the
\* account-linking modal, any other code shows 'Error signing in: <code>'.
C21_EverySignInErrorVisible ==
  HandledSignInError =>
    /\ userAuth.signIn.error = "EMAIL_IN_USE" =>
         userAuth.signIn.toasts =
           <<"Account linking failed due to an email mismatch">>
    /\ userAuth.signIn.error = "POPUP_CLOSED" =>
         userAuth.signIn.toasts = <<"Popup was closed by the user">>
    /\ userAuth.signIn.error = "POPUP_BLOCKED" =>
         userAuth.signIn.toasts = <<"Popup was blocked by the browser">>
    /\ userAuth.signIn.error = "EXISTING_ACCOUNT" =>
         userAuth.accountLinkingModal
    /\ userAuth.signIn.error = "other" =>
         userAuth.signIn.toasts = <<"Error signing in: other">>
    /\ userAuth.signIn.toasts /= <<>> \/ userAuth.accountLinkingModal

\* signInWithPopup has been called and has not settled.
PopupPending == userAuth.signIn.pc = "popup"

\* A sign-in attempt has just settled, in success or in failure.
SignInSettled == userAuth.event \in {"SignedIn", "PopupFailed"}

\* C27: while a sign-in popup is pending signingIn is true, the trigger
\* shows 'Signing in...' and the trigger and the provider buttons are
\* disabled, so at most one signInWithPopup is pending; when a sign-in
\* attempt has settled signingIn is false and the user panel is closed.
C27_OneSignInAtATime ==
  /\ PopupPending =>
       /\ userAuth.signingIn
       /\ TriggerLabel(userAuth) = "Signing in..."
       /\ TriggerDisabled(userAuth)
       /\ ProviderDisabled(userAuth)
  /\ userAuth.popups <= 1
  /\ userAuth.popups = (IF PopupPending THEN 1 ELSE 0)
  /\ SignInSettled =>
       /\ ~userAuth.signingIn
       /\ ~userAuth.userPanel
       /\ userAuth.signIn.pc = "idle"

\* The Google button of the linking modal was clicked: its popup is pending.
C27_Witness ==
  /\ PopupPending
  /\ userAuth.accountLinkingModal
  /\ userAuth.signIn.provider = "google"
  /\ userAuth.signingIn
  /\ userAuth.popups = 1

\* A failed attempt closed the user panel a signed-out user had left open.
C27_WitnessSettled ==
  /\ userAuth.event = "PopupFailed"
  /\ ~userAuth.signingIn
  /\ ~userAuth.userPanel
  /\ userAuth.signIn.error = "POPUP_CLOSED"

(***************************************************************************)
(* useTheme inside ColorSchemes.  theming holds the theme state, the       *)
(* defaultTheme computed by the last render, the dependency values the two *)
(* effects last ran with, the theme classes of document.body and the value *)
(* stored under 'color-theme'.  The effects of a render run after it, the  *)
(* effect on [defaultTheme] before the effect on [theme].                  *)
(***************************************************************************)

\* themes() of useTheme.
ValidThemes == {"light", "dark", "midnight", "glacier", "sunset", "forest"}

\* The ids of the options ColorSchemes offers.
OfferedThemes == {"light", "dark", "sunset", "midnight", "forest", "glacier"}

\* localStorage.getItem('color-theme'): null, a theme or something else.
StoredValues == {"null", "solarized"} \cup ValidThemes

ThemeInit ==
  /\ markdown = JSString(<<>>)
  /\ markdownInput = JSString(<<>>)
  /\ DiffAtRest
  /\ ControlAtRest
  /\ LinkAtRest
  /\ CaptureAtRest
  /\ PanelAtRest
  /\ ProviderAtRest
  /\ UserAuthAtRest
  /\ theming \in {[NoTheme EXCEPT !.stored = v, !.darkMode = d] :
                    v \in StoredValues, d \in BOOLEAN}

\* darkMode ? 'dark' : 'light'
DefaultTheme(darkMode) == IF darkMode THEN "dark" ELSE "light"

InitialThemeIgnoresStored(stored, defaultTheme) == defaultTheme

\* themes().includes(storedTheme) ? storedTheme : defaultTheme
InitialTheme(stored, defaultTheme) ==
  IF stored \in ValidThemes THEN stored ELSE defaultTheme

\* A render: matchMedia is read again; effects whose dependencies differ
\* from those of their last run are due.
ThemeRendered(t) ==
  LET d == DefaultTheme(t.darkMode)
  IN  [t EXCEPT !.defaultTheme = d,
                !.pending = (d /= t.effectDefault) \/ (t.theme /= t.effectTheme)]

BodyKeepsOldClass(body, theme) == body \cup {theme}

\* themes().forEach(remove); classList.add(theme)
BodyWithTheme(body, theme) == (body \ ValidThemes) \cup {theme}

\* The two effects of the last render, and the render that follows if the
\* first one changed the theme.
ThemeEffects(t) ==
  LET first == t.defaultTheme /= t.effectDefault
      second == t.theme /= t.effectTheme /\ t.theme /= "null"
      next == IF first THEN InitialTheme(t.stored, t.defaultTheme) ELSE t.theme
      u == [t EXCEPT !.body = IF second THEN BodyWithTheme(@, t.theme) ELSE @,
                     !.stored = IF second THEN t.theme ELSE @,
                     !.effectDefault = t.defaultTheme,
                     !.effectTheme = t.theme,
                     !.pending = FALSE]
  IN  IF next /= t.theme THEN ThemeRendered([u EXCEPT !.theme = next]) ELSE u

\* ColorSchemes is mounted: the first render, theme null.
ThemeMount ==
  /\ theming.status = "idle"
  /\ theming' = ThemeRendered([theming EXCEPT
                                 !.status = "mounting",
                                 !.mount = [stored |-> theming.stored,
                                            darkMode |-> theming.darkMode],
                                 !.event = "Mount"])
  /\ UNCHANGED nonThemeVars

\* The effects that are due run.
ThemeRunEffects ==
  /\ theming.status \in {"mounting", "mounted"}
  /\ theming.pending
  /\ theming' = [ThemeEffects(theming) EXCEPT
                   !.status = "mounted",
                   !.event = IF theming.status = "mounting"
                             THEN "Initialized" ELSE "Effects"]
  /\ UNCHANGED nonThemeVars

\* The dropdown button.
ToggleThemeDropdown ==
  /\ theming.status = "mounted"
  /\ ~theming.pending
  /\ theming' = ThemeRendered([theming EXCEPT !.themeDropdownOpen = ~@,
                                              !.event = "ToggleDropdown"])
  /\ UNCHANGED nonThemeVars

\* A click on an option: updateColorScheme(id).
SelectTheme ==
  \E id \in OfferedThemes :
    /\ theming.status = "mounted"
    /\ ~theming.pending
    /\ theming.themeDropdownOpen
    /\ theming' = ThemeRendered([theming EXCEPT !.theme = id,
                                                !.themeDropdownOpen = FALSE,
                                                !.selected = id,
                                                !.event = "SelectTheme"])
    /\ UNCHANGED nonThemeVars

\* The system's colour scheme preference changes; nothing renders.
PreferenceChange ==
  /\ theming' = [theming EXCEPT !.darkMode = ~@, !.event = "PreferenceChange"]
  /\ UNCHANGED nonThemeVars

\* The page is left: state and document are gone, localStorage stays.
ThemeUnmount ==
  /\ theming.status = "mounted"
  /\ ~theming.pending
  /\ theming' = [NoTheme EXCEPT !.stored = theming.stored,
                                !.darkMode = theming.darkMode,
                                !.selected = theming.selected,
                                !.event = "Unmount"]
  /\ UNCHANGED nonThemeVars

ThemeNext ==
  \/ ThemeMount
  \/ ThemeRunEffects
  \/ ToggleThemeDropdown
  \/ SelectTheme
  \/ PreferenceChange
  \/ ThemeUnmount

SpecTheme == ThemeInit /\ [][ThemeNext]_vars

\* C22: on mount the theme becomes the stored value if that is one of the
\* six themes, and otherwise 'dark' if the system prefers a dark scheme and
\* 'light' if not; the result is always one of the six.
C22_InitialTheme ==
  /\ theming.event = "Initialized" =>
       /\ theming.mount.stored \in ValidThemes =>
            theming.theme = theming.mount.stored
       /\ theming.mount.stored \notin ValidThemes /\ theming.mount.darkMode =>
            theming.theme = "dark"
       /\ theming.mount.stored \notin ValidThemes /\ ~theming.mount.darkMode =>
            theming.theme = "light"
  /\ theming.status = "mounted" => theming.theme \in ValidThemes

\* Mounted with something else stored under a dark preference: dark.
C22_Witness ==
  /\ theming.event = "Initialized"
  /\ theming.mount.stored = "solarized"
  /\ theming.mount.darkMode
  /\ theming.theme = "dark"

\* Every effect of the last render has run.
ThemeSettled == theming.status = "mounted" /\ ~theming.pending

\* document.body carries the class of the theme and of no other theme, and
\* 'color-theme' holds the theme.
ThemeApplied ==
  ThemeSettled =>
    /\ theming.body \cap ValidThemes = {theming.theme}
    /\ theming.stored = theming.theme

\* The theme set on mount is the one last selected, if one was selected.
SelectionRestored ==
  theming.event = "Initialized" /\ theming.selected /= "null" =>
    theming.theme = theming.selected

\* C23: once effects have run, document.body carries the class of the
\* current theme and of no other theme and 'color-theme' equals the current
\* theme; a theme selected in ColorSchemes is the theme set on the next mount.
C23_SelectedThemePersists == ThemeApplied /\ SelectionRestored

====
